---- MODULE Spec2Model ----
(***************************************************************************)
(* AgriPlanum: the agronomic calculators (planting-window classifier,      *)
(* cycle timeline, sowing density, soil adequacy) of script.js and of      *)
(* docs/js/map.js with its utils module, modelled as state machines over   *)
(* the form inputs and the result elements.                                *)
(***************************************************************************)
EXTENDS Integers, Sequences, FiniteSets, TLC

VARIABLES
    \* ---- pure-function harness of the planting-window classifier ----
    seasonArgs,     \* [month, day, region]: the arguments of the call
    insideRet,      \* <<result>> of isBetween on the tolerated window, <<>> before the call
    seasonRet,      \* result of utils getPlantingSeason, or "none"
    seasonRetScript, \* result of script.js getPlantingSeason, or "none"
    \* ---- cycle planner ----
    app,            \* which page is loaded: "script" (script.js) or "docs" (docs/js)
    timeZone,       \* the browser's local time zone: [off, dst]
    dateInput,      \* value of the planting-date input: <<>> or <<[y, m, d]>>
    varietySelect,  \* value of the variety select: "" or a variety key
    currentRegion,  \* value of the region select: "" or a region key
    resultElement,  \* content of the result element
    resultsHidden,  \* whether the results container is hidden
    alertMessage,   \* text of the last alert() of the docs page, "" if none
    \* ---- sowing calculator ----
    sowingAreaInput,        \* value of the area input: <<>> (empty) or <<n>>
    sowingVarietySelect,    \* "" or a variety key
    germinationRateInput,   \* value of the germination input: <<>> or <<n>>
    fieldConditionsSelect,  \* "good", "average" or "poor"
    sowingResultText,       \* content of the sowing result element
    sowingResultsHidden,    \* whether the sowing results container is hidden
    \* ---- soil analysis ----
    soilVarietySelect,      \* "" or a variety key
    soilInputs,             \* nutrient key -> <<>> (empty) or <<value in hundredths>>
    soilResultList,         \* content of the soil result list
    soilResultsHidden,      \* whether the soil results container is hidden
    \* ---- application state ----
    state,          \* the state object of the page: token, tables, fields, plants, map mode
    \* ---- backend ----
    dbFields,       \* rows of the fields table
    dbPlants,       \* rows of the plants table
    dbSeq,          \* the serial id the next INSERT receives
    response,       \* the last request served and the response sent, <<>> before any
    \* ---- browser side of the field mapper ----
    ui,             \* localStorage, the DOM (screens, views, panels, forms) and the
                    \* module variables of map.js and handlers.js
    pending,        \* the API calls in flight, each with its response once served
    callSeq         \* the number the next API call receives

seasonVars == <<seasonArgs, insideRet, seasonRet, seasonRetScript>>
cycleVars == <<app, timeZone, dateInput, varietySelect, currentRegion,
               resultElement, resultsHidden, alertMessage>>
sowingVars == <<sowingAreaInput, sowingVarietySelect, germinationRateInput,
                fieldConditionsSelect, sowingResultText, sowingResultsHidden>>
soilVars == <<soilVarietySelect, soilInputs, soilResultList, soilResultsHidden>>
clientVars == <<ui, pending, callSeq>>
pageVars == <<state, clientVars>>
serverVars == <<dbFields, dbPlants, dbSeq, response>>
vars == <<seasonVars, cycleVars, sowingVars, soilVars, pageVars, serverVars>>

(***************************************************************************)
(* Strings are sequences of one-character strings, so that split('-') and  *)
(* Number() are modelled by what they do.                                  *)
(***************************************************************************)
DigitChars == <<"0", "1", "2", "3", "4", "5", "6", "7", "8", "9">>

IsDigit(c) == \E i \in 1..10 : DigitChars[i] = c

DigitValue(c) == (CHOOSE i \in 1..10 : DigitChars[i] = c) - 1

\* String.prototype.split('-'): the pieces between the '-' characters
RECURSIVE SplitDash(_, _)
SplitDash(s, cur) ==
    IF s = <<>> THEN <<cur>>
    ELSE IF Head(s) = "-" THEN <<cur>> \o SplitDash(Tail(s), <<>>)
    ELSE SplitDash(Tail(s), Append(cur, Head(s)))

\* Number(str) for a string of decimal digits ("" gives 0), "NaN" otherwise
RECURSIVE NumberRec(_, _)
NumberRec(s, acc) ==
    IF s = <<>> THEN acc
    ELSE IF ~IsDigit(Head(s)) THEN "NaN"
    ELSE NumberRec(Tail(s), acc * 10 + DigitValue(Head(s)))

Number(s) == NumberRec(s, 0)

\* 'MM-DD'.split('-').map(Number)
SplitMapNumber(s) ==
    LET parts == SplitDash(s, <<>>)
    IN  [i \in 1..Len(parts) |-> Number(parts[i])]

(***************************************************************************)
(* utils: isBetween and getPlantingSeason                                  *)
(***************************************************************************)
isBetweenWrapAnd(month, day, start, end) ==
    LET dateNum  == month * 100 + day
        startNum == start[1] * 100 + start[2]
        endNum   == end[1] * 100 + end[2]
    IN  dateNum >= startNum /\ dateNum <= endNum

isBetween(month, day, start, end) ==
    LET dateNum  == month * 100 + day
        startNum == start[1] * 100 + start[2]
        endNum   == end[1] * 100 + end[2]
    IN  IF startNum > endNum
        THEN dateNum >= startNum \/ dateNum <= endNum
        ELSE dateNum >= startNum /\ dateNum <= endNum

\* zoningData[key] of an unknown key
NoRegion == [undefined |-> TRUE]

getPlantingSeasonTolFirst(month, day, region) ==
    IF region = NoRegion THEN "RegionNotSelected"
    ELSE IF isBetween(month, day, SplitMapNumber(region.tolerated_start),
                                  SplitMapNumber(region.tolerated_end))
         THEN "Tolerated"
    ELSE IF isBetween(month, day, SplitMapNumber(region.preferential_start),
                                  SplitMapNumber(region.preferential_end))
         THEN "Preferential"
    ELSE "NotRecommended"

\* utils.getPlantingSeason: the badge class of the returned span
getPlantingSeason(month, day, region) ==
    IF region = NoRegion THEN "RegionNotSelected"
    ELSE IF isBetween(month, day, SplitMapNumber(region.preferential_start),
                                  SplitMapNumber(region.preferential_end))
         THEN "Preferential"
    ELSE IF isBetween(month, day, SplitMapNumber(region.tolerated_start),
                                  SplitMapNumber(region.tolerated_end))
         THEN "Tolerated"
    ELSE "NotRecommended"

\* script.js getPlantingSeason: no guard, destructuring undefined throws
getPlantingSeason_script(month, day, region) ==
    IF region = NoRegion THEN "TypeError"
    ELSE IF isBetween(month, day, SplitMapNumber(region.preferential_start),
                                  SplitMapNumber(region.preferential_end))
         THEN "Preferential"
    ELSE IF isBetween(month, day, SplitMapNumber(region.tolerated_start),
                                  SplitMapNumber(region.tolerated_end))
         THEN "Tolerated"
    ELSE "NotRecommended"

(***************************************************************************)
(* Reference data: the zoning table of script.js / state.js                *)
(***************************************************************************)
Cal(ps, pe, ts, te) ==
    [preferential_start |-> ps, preferential_end |-> pe,
     tolerated_start |-> ts, tolerated_end |-> te]

s0101 == <<"0", "1", "-", "0", "1">>
s0115 == <<"0", "1", "-", "1", "5">>
s0120 == <<"0", "1", "-", "2", "0">>
s0131 == <<"0", "1", "-", "3", "1">>
s0210 == <<"0", "2", "-", "1", "0">>
s0215 == <<"0", "2", "-", "1", "5">>
s0220 == <<"0", "2", "-", "2", "0">>
s0228 == <<"0", "2", "-", "2", "8">>
s0601 == <<"0", "6", "-", "0", "1">>
s1201 == <<"1", "2", "-", "0", "1">>
s1215 == <<"1", "2", "-", "1", "5">>
s1231 == <<"1", "2", "-", "3", "1">>

zoningData ==
    [r \in {"mt-south", "mt-mid-north", "mt-west", "mt-araguaia-valley",
            "ba-rainfed", "ba-irrigated", "go-ms", "mg-sp",
            "ma-pi-1st", "ma-pi-2nd"} |->
        CASE r = "mt-south"           -> Cal(s0101, s0131, s1215, s0215)
          [] r = "mt-mid-north"       -> Cal(s0101, s0131, s1215, s0215)
          [] r = "mt-west"            -> Cal(s0101, s0131, s1215, s0131)
          [] r = "mt-araguaia-valley" -> Cal(s0101, s0120, s1215, s0131)
          [] r = "ba-rainfed"         -> Cal(s1215, s1231, s1201, s0115)
          [] r = "ba-irrigated"       -> Cal(s0101, s0215, s1215, s0228)
          [] r = "go-ms"              -> Cal(s1215, s0115, s1201, s0131)
          [] r = "mg-sp"              -> Cal(s1215, s0115, s1201, s0131)
          [] r = "ma-pi-1st"          -> Cal(s1215, s0115, s1201, s0131)
          [] r = "ma-pi-2nd"          -> Cal(s0115, s0210, s0101, s0220)]

ZoningCalendars == {zoningData[r] : r \in DOMAIN zoningData}

\* window bounds of the synthetic calendars the classifier is exercised on
WindowBounds == {s0101, s0131, s0601, s1215}

SyntheticCalendars ==
    {Cal(ps, pe, ts, te) : ps \in WindowBounds, pe \in WindowBounds,
                           ts \in WindowBounds, te \in WindowBounds}

Months == 1..12
TestDays == {1, 10, 15, 20, 31}

(***************************************************************************)
(* Date: an instant is a number of hours since 2023-01-01T00:00Z (the      *)
(* millisecond time value divided by 3600000).  The calendar is the        *)
(* proleptic Gregorian calendar of the Date object.                        *)
(***************************************************************************)
IsLeap(y) == (y % 4 = 0 /\ y % 100 # 0) \/ y % 400 = 0

DaysInYear(y) == IF IsLeap(y) THEN 366 ELSE 365

DaysInMonth(y, m) ==
    IF m = 2 THEN (IF IsLeap(y) THEN 29 ELSE 28)
    ELSE IF m \in {4, 6, 9, 11} THEN 30 ELSE 31

Years == 2023..2027

RECURSIVE DaysBeforeYear(_)
DaysBeforeYear(y) == IF y <= 2023 THEN 0 ELSE DaysBeforeYear(y - 1) + DaysInYear(y - 1)

RECURSIVE DaysBeforeMonth(_, _)
DaysBeforeMonth(y, m) ==
    IF m <= 1 THEN 0 ELSE DaysBeforeMonth(y, m - 1) + DaysInMonth(y, m - 1)

\* day number of the calendar date y-m-d (0 is 2023-01-01)
DayNum(y, m, d) == DaysBeforeYear(y) + DaysBeforeMonth(y, m) + d - 1

\* calendar date of a day number; the day before day 0 is 2022-12-31
YMD(n) ==
    IF n < 0 THEN [y |-> 2022, m |-> 12, d |-> 32 + n]
    ELSE LET y == CHOOSE yy \in Years :
                    DaysBeforeYear(yy) <= n /\ n < DaysBeforeYear(yy + 1)
             r == n - DaysBeforeYear(y)
             m == CHOOSE mm \in Months :
                    DaysBeforeMonth(y, mm) <= r /\ r < DaysBeforeMonth(y, mm + 1)
         IN  [y |-> y, m |-> m, d |-> r - DaysBeforeMonth(y, m) + 1]

HoursPerDay == 24

\* Summer time by the European rule: from 01:00 UTC on the last Sunday of
\* March to 01:00 UTC on the last Sunday of October.
DstBegin(y) ==
    CASE y = 2023 -> DayNum(2023, 3, 26) [] y = 2024 -> DayNum(2024, 3, 31)
      [] y = 2025 -> DayNum(2025, 3, 30) [] y = 2026 -> DayNum(2026, 3, 29)
      [] OTHER -> DayNum(2027, 3, 28)

DstEnd(y) ==
    CASE y = 2023 -> DayNum(2023, 10, 29) [] y = 2024 -> DayNum(2024, 10, 27)
      [] y = 2025 -> DayNum(2025, 10, 26) [] y = 2026 -> DayNum(2026, 10, 25)
      [] OTHER -> DayNum(2027, 10, 31)

DstOn(t) ==
    \E y \in Years : t >= HoursPerDay * DstBegin(y) + 1 /\ t < HoursPerDay * DstEnd(y) + 1

\* hours to add to a UTC instant to get the local wall-clock time
UtcOffsetAt(zone, t) == zone.off + (IF zone.dst /\ DstOn(t) THEN 1 ELSE 0)

\* the UTC instant of a local wall-clock time
LocalToUtc(zone, lt) ==
    IF UtcOffsetAt(zone, lt - zone.off) = zone.off THEN lt - zone.off
    ELSE lt - zone.off - 1

\* new Date(str + 'T00:00:00'): a date-time without offset is local time
NewDateLocalMidnight(zone, ymd) ==
    LocalToUtc(zone, HoursPerDay * DayNum(ymd.y, ymd.m, ymd.d))

\* date.setDate(date.getDate() + n): n days later on the local calendar, same
\* local time of day
SetDatePlus(zone, t, n) ==
    LET local == t + UtcOffsetAt(zone, t)
    IN  LocalToUtc(zone, HoursPerDay * ((local \div HoursPerDay) + n) + (local % HoursPerDay))

\* getUTCMonth() + 1 and getUTCDate()
GetUTCMonth1(t) == YMD(t \div HoursPerDay).m
GetUTCDate(t) == YMD(t \div HoursPerDay).d

\* formatDate: toLocaleDateString(..., {timeZone: 'UTC'}) shows the UTC date
formatDate(t) == YMD(t \div HoursPerDay)

\* the time zones the pages are run in
TimeZones ==
    { [off |-> -3, dst |-> FALSE],      \* America/Sao_Paulo
      [off |-> -2, dst |-> TRUE],       \* America/Nuuk
      [off |-> 0,  dst |-> FALSE],      \* UTC
      [off |-> 0,  dst |-> TRUE],       \* Europe/London
      [off |-> 1,  dst |-> TRUE],       \* Europe/Berlin
      [off |-> 9,  dst |-> FALSE] }     \* Asia/Tokyo

(***************************************************************************)
(* Reference data: varieties.  stages is the ordered object of the source, *)
(* a sequence of [name, days].                                             *)
(***************************************************************************)
Stage(n, d) == [name |-> n, days |-> d]

\* Soil quantities are decimal numbers with at most two decimals, held in
\* hundredths (6.5 is 650); the code only compares them.  An absent bound of
\* a range is <<>> (undefined), a present one <<value>>.
Range(mn, mx) == [min |-> mn, max |-> mx]
AtLeast(mn) == Range(<<mn>>, <<>>)
AtMost(mx) == Range(<<>>, <<mx>>)

NutrientKeys == {"ph", "v", "al", "p", "k", "ca", "mg", "s", "b", "zn", "n"}

SoilTmg ==
    [ph |-> Range(<<600>>, <<650>>), v_percent |-> AtLeast(6000), al_cmolc |-> AtMost(30),
     p_ppm |-> AtLeast(2000), k_ppm |-> AtLeast(15000), ca_cmolc |-> AtLeast(250),
     mg_cmolc |-> AtLeast(80), s_ppm |-> AtLeast(1000), b_ppm |-> AtLeast(50),
     zn_ppm |-> AtLeast(120), n_ppm |-> AtLeast(10000)]

SoilBrs ==
    [ph |-> Range(<<580>>, <<650>>), v_percent |-> AtLeast(6000), al_cmolc |-> AtMost(30),
     p_ppm |-> AtLeast(2500), k_ppm |-> AtLeast(12000), ca_cmolc |-> AtLeast(200),
     mg_cmolc |-> AtLeast(80), s_ppm |-> AtLeast(1000), b_ppm |-> AtLeast(60),
     zn_ppm |-> AtLeast(140), n_ppm |-> AtLeast(12000)]

\* an API row whose pH range is the single value 6.2
SoilSingle ==
    [ph |-> Range(<<620>>, <<620>>), v_percent |-> AtLeast(5000), al_cmolc |-> AtMost(50),
     p_ppm |-> AtLeast(2000), k_ppm |-> AtLeast(15000), ca_cmolc |-> AtLeast(250),
     mg_cmolc |-> AtLeast(80), s_ppm |-> AtLeast(1000), b_ppm |-> AtLeast(50),
     zn_ppm |-> AtLeast(120), n_ppm |-> AtLeast(10000)]

cottonVarieties ==
    [k \in {"tmg 84 b3xf", "brs 433"} |->
        IF k = "tmg 84 b3xf"
        THEN [name |-> "TMG 84 B3XF", population |-> 110000, soil |-> SoilTmg,
              stages |-> << Stage("Emergence to First Square (V0 to B1/B3)", 35),
                            Stage("First Square to First Flower (B1/B3 to F1)", 25),
                            Stage("Flowering Period (F1 to FN)", 40),
                            Stage("Boll Development & Maturation (C1 to CN)", 50) >>]
        ELSE [name |-> "BRS 433", population |-> 100000, soil |-> SoilBrs,
              stages |-> << Stage("Emergence to First Square (V0 to B1/B3)", 30),
                            Stage("First Square to First Flower (B1/B3 to F1)", 25),
                            Stage("Flowering Period (F1 to FN)", 40),
                            Stage("Boll Development & Maturation (C1 to CN)", 45) >>]]

\* a column of the varieties table arrives as <<value>>, or as JSON null when
\* it is NULL
Null == <<>>

\* state.varieties of the docs page is loaded from the API: the two cotton
\* varieties, a single-stage row whose target_population is NULL and a row
\* whose stages object is {}
apiVarieties ==
    [k \in {"tmg 84 b3xf", "brs 433", "single", "bare"} |->
        IF k = "single"
        THEN [name |-> "Single", target_population |-> Null,
              ideal_soil_conditions |-> SoilSingle,
              stages |-> << Stage("Whole cycle", 120) >>]
        ELSE IF k = "bare"
        THEN [name |-> "Bare", target_population |-> <<100000>>,
              ideal_soil_conditions |-> SoilBrs,
              stages |-> << >>]
        ELSE [name |-> cottonVarieties[k].name,
              target_population |-> <<cottonVarieties[k].population>>,
              ideal_soil_conditions |-> cottonVarieties[k].soil,
              stages |-> cottonVarieties[k].stages]]

VarietiesOf(a) == IF a = "script" THEN cottonVarieties ELSE apiVarieties

\* zoningData[key]: undefined for a key that is not in the table
ZoningLookup(key) ==
    IF key \in DOMAIN state.zoningData THEN state.zoningData[key] ELSE NoRegion

(***************************************************************************)
(* Numbers.  A JavaScript number is an IEEE-754 double; products and       *)
(* quotients are rounded to 53 significant bits, ties to even.  Naturals   *)
(* beyond the machine word are little-endian sequences of 15-bit limbs.    *)
(***************************************************************************)
LimbBits == 15
Limb == 2 ^ LimbBits

RECURSIVE BigNorm(_)
BigNorm(a) ==
    IF a = <<>> THEN <<>>
    ELSE IF a[Len(a)] = 0 THEN BigNorm(SubSeq(a, 1, Len(a) - 1)) ELSE a

RECURSIVE BigFromInt(_)
BigFromInt(n) == IF n = 0 THEN <<>> ELSE <<n % Limb>> \o BigFromInt(n \div Limb)

RECURSIVE BigToInt(_)
BigToInt(a) == IF a = <<>> THEN 0 ELSE Head(a) + Limb * BigToInt(Tail(a))

RECURSIVE BigAddC(_, _, _)
BigAddC(a, b, c) ==
    IF a = <<>> /\ b = <<>> THEN (IF c = 0 THEN <<>> ELSE <<c>>)
    ELSE LET x == IF a = <<>> THEN 0 ELSE Head(a)
             y == IF b = <<>> THEN 0 ELSE Head(b)
             v == x + y + c
         IN  <<v % Limb>> \o BigAddC(IF a = <<>> THEN <<>> ELSE Tail(a),
                                     IF b = <<>> THEN <<>> ELSE Tail(b), v \div Limb)

BigAdd(a, b) == BigNorm(BigAddC(a, b, 0))

RECURSIVE BigMulSmallC(_, _, _)
BigMulSmallC(a, k, c) ==
    IF a = <<>> THEN (IF c = 0 THEN <<>> ELSE <<c>>)
    ELSE LET v == Head(a) * k + c
         IN  <<v % Limb>> \o BigMulSmallC(Tail(a), k, v \div Limb)

\* a * k for a limb k
BigMulSmall(a, k) == BigNorm(BigMulSmallC(a, k, 0))

RECURSIVE BigMul(_, _)
BigMul(a, b) ==
    IF b = <<>> \/ a = <<>> THEN <<>>
    ELSE LET rest == BigMul(a, Tail(b))
         IN  BigAdd(BigMulSmall(a, Head(b)),
                    IF rest = <<>> THEN <<>> ELSE <<0>> \o rest)

\* long division by a limb k, from the most significant limb down
RECURSIVE BigDivSmallR(_, _, _, _)
BigDivSmallR(a, k, i, st) ==
    IF i = 0 THEN st
    ELSE LET v == st.r * Limb + a[i]
         IN  BigDivSmallR(a, k, i - 1, [q |-> <<v \div k>> \o st.q, r |-> v % k])

BigDivSmall(a, k) ==
    LET st == BigDivSmallR(a, k, Len(a), [q |-> <<>>, r |-> 0])
    IN  [q |-> BigNorm(st.q), r |-> st.r]

RECURSIVE SmallBitLen(_)
SmallBitLen(n) == IF n = 0 THEN 0 ELSE 1 + SmallBitLen(n \div 2)

BigBitLen(a) == IF a = <<>> THEN 0 ELSE (Len(a) - 1) * LimbBits + SmallBitLen(a[Len(a)])

Zeros(n) == [i \in 1..n |-> 0]

\* a * 2^k
BigShl(a, k) ==
    IF a = <<>> THEN <<>>
    ELSE Zeros(k \div LimbBits) \o BigMulSmall(a, 2 ^ (k % LimbBits))

\* floor(a / 2^k)
BigShr(a, k) ==
    IF k \div LimbBits >= Len(a) THEN <<>>
    ELSE BigDivSmall(SubSeq(a, (k \div LimbBits) + 1, Len(a)), 2 ^ (k % LimbBits)).q

\* a mod 2^k
BigLow(a, k) ==
    LET n == k \div LimbBits
    IN  IF n >= Len(a) THEN a
        ELSE BigNorm(SubSeq(a, 1, n) \o <<a[n + 1] % (2 ^ (k % LimbBits))>>)

BigIsOdd(a) == a # <<>> /\ a[1] % 2 = 1

MantissaBits == 53

NaN == [nan |-> TRUE]
Double(sign, m, e) == [nan |-> FALSE, sign |-> sign, m |-> m, e |-> e]

\* the double nearest to sign * (m + sticky) * 2^e, ties to even; sticky
\* says that a nonzero fraction below the last bit of m was dropped
RoundToDouble(sign, m, e, sticky) ==
    LET len == BigBitLen(m)
    IN  IF len <= MantissaBits THEN Double(sign, m, e)
        ELSE LET k    == len - MantissaBits
                 q    == BigShr(m, k)
                 rem  == BigLow(m, k)
                 half == BigShl(<<1>>, k - 1)
                 above == BigBitLen(rem) = k /\ (rem # half \/ sticky)
                 tie   == rem = half /\ ~sticky
                 up    == above \/ (tie /\ BigIsOdd(q))
             IN  Double(sign, IF up THEN BigAdd(q, <<1>>) ELSE q, e + k)

Abs(n) == IF n < 0 THEN -n ELSE n
Sgn(n) == IF n < 0 THEN -1 ELSE 1

\* an integer below 2^31 as a double (exact)
DFromInt(n) == Double(Sgn(n), BigFromInt(Abs(n)), 0)

ExtraBits == 75

\* the double n / k for integers n and k (k a nonzero limb): the quotient is
\* taken with 75 extra bits and then rounded.  A decimal literal such as 1.05
\* is the double 105 / 100.
DDivInt(n, k) ==
    LET d == BigDivSmall(BigShl(BigFromInt(Abs(n)), ExtraBits), Abs(k))
    IN  RoundToDouble(Sgn(n) * Sgn(k), d.q, -ExtraBits, d.r # 0)

\* x * y
DMul(x, y) ==
    IF x.nan \/ y.nan THEN NaN
    ELSE RoundToDouble(x.sign * y.sign, BigMul(x.m, y.m), x.e + y.e, FALSE)

\* Math.ceil(x) as an integer, "NaN" for NaN
MathCeil(x) ==
    IF x.nan THEN "NaN"
    ELSE IF x.e >= 0 THEN x.sign * BigToInt(BigShl(x.m, x.e))
    ELSE LET fl == BigToInt(BigShr(x.m, -x.e))
             frac == BigLow(x.m, -x.e) # <<>>
         IN  IF x.sign = 1 THEN fl + (IF frac THEN 1 ELSE 0) ELSE -fl

\* content of a result element: nothing yet, or showError(...)
EmptyContent == [kind |-> "empty"]
ErrorContent(msg) == [kind |-> "error", message |-> msg]

(***************************************************************************)
(* Sowing calculator                                                       *)
(***************************************************************************)
\* parseFloat(input.value) for an empty input or one holding an integer
ParseFloat(v) == IF v = <<>> THEN NaN ELSE DFromInt(v[1])

\* !x for a number: NaN and 0 are falsy
Falsy(x) == x.nan \/ x.m = <<>>

\* a numeric operand taken from an API record: null converts to 0
ToNumber(v) == IF v = Null THEN DFromInt(0) ELSE DFromInt(v[1])

ConditionFactor(conditions) ==
    IF conditions = "average" THEN DDivInt(105, 100)
    ELSE IF conditions = "poor" THEN DDivInt(110, 100)
    ELSE DFromInt(1)

\* (area * population) * germinationFactor * conditionFactor
SeedsToBuy(area, population, germinationRate, conditions) ==
    DMul(DMul(DMul(area, population),
              DDivInt(100, germinationRate)),
         ConditionFactor(conditions))

SeedsContent(n) == [kind |-> "seeds", seeds |-> n]

\* script.js: calculateSowingBtn click handler
CalculateSowing ==
    /\ app = "script"
    /\ LET area == ParseFloat(sowingAreaInput)
           germinationRate == ParseFloat(germinationRateInput)
       IN  IF Falsy(area) \/ sowingVarietySelect = "" \/ Falsy(germinationRate)
           THEN sowingResultText' = ErrorContent("Please fill in all fields correctly.")
           ELSE sowingResultText' =
                    SeedsContent(MathCeil(SeedsToBuy(area,
                        DFromInt(state.varieties[sowingVarietySelect].population),
                        germinationRateInput[1], fieldConditionsSelect)))
    /\ sowingResultsHidden' = FALSE
    /\ UNCHANGED <<pageVars, serverVars, sowingAreaInput, sowingVarietySelect, germinationRateInput,
                   fieldConditionsSelect, seasonVars, cycleVars, soilVars>>

\* handleSowingCalculation keeping the entered area in state.currentMapArea
handleSowingCalculationKeepsArea ==
    /\ app = "docs"
    /\ LET area == ParseFloat(sowingAreaInput)
           germinationRate == ParseFloat(germinationRateInput)
       IN  IF Falsy(area) \/ sowingVarietySelect = "" \/ Falsy(germinationRate)
           THEN /\ alertMessage' = "Please fill in all fields correctly."
                /\ sowingResultsHidden' = TRUE
                /\ UNCHANGED sowingResultText
           ELSE /\ sowingResultText' =
                    SeedsContent(MathCeil(SeedsToBuy(area,
                        ToNumber(state.varieties[sowingVarietySelect].target_population),
                        germinationRateInput[1], fieldConditionsSelect)))
                /\ sowingResultsHidden' = FALSE
                /\ UNCHANGED alertMessage
    /\ state' = [state EXCEPT !.currentMapArea =
                   [hectares |-> IF sowingAreaInput = <<>> THEN 0 ELSE sowingAreaInput[1],
                    squareMeters |-> 0]]
    /\ UNCHANGED <<clientVars, serverVars, sowingAreaInput, sowingVarietySelect, germinationRateInput,
                   fieldConditionsSelect, seasonVars, soilVars,
                   app, timeZone, dateInput, varietySelect, currentRegion,
                   resultElement, resultsHidden>>

\* docs/js/map.js: handleSowingCalculation
handleSowingCalculation ==
    /\ app = "docs"
    /\ LET area == ParseFloat(sowingAreaInput)
           germinationRate == ParseFloat(germinationRateInput)
       IN  IF Falsy(area) \/ sowingVarietySelect = "" \/ Falsy(germinationRate)
           THEN /\ alertMessage' = "Please fill in all fields correctly."
                /\ sowingResultsHidden' = TRUE
                /\ UNCHANGED sowingResultText
           ELSE /\ sowingResultText' =
                    SeedsContent(MathCeil(SeedsToBuy(area,
                        ToNumber(state.varieties[sowingVarietySelect].target_population),
                        germinationRateInput[1], fieldConditionsSelect)))
                /\ sowingResultsHidden' = FALSE
                /\ UNCHANGED alertMessage
    /\ UNCHANGED <<pageVars, serverVars, sowingAreaInput, sowingVarietySelect, germinationRateInput,
                   fieldConditionsSelect, seasonVars, soilVars,
                   app, timeZone, dateInput, varietySelect, currentRegion,
                   resultElement, resultsHidden>>

(***************************************************************************)
(* Soil analysis                                                           *)
(***************************************************************************)
Undefined == <<>>

ReportLine(label, unit, value, idealText, status) ==
    [label |-> label, unit |-> unit, value |-> value, idealText |-> idealText,
     status |-> status]

\* the three shapes of idealText: `min - max`, `> min`, `< min`
TextRange(mn, mx) == [shape |-> "range", min |-> mn, max |-> mx]
TextAbove(mn) == [shape |-> "above", min |-> mn]
TextBelow(mn) == [shape |-> "below", min |-> mn]

\* createReportLine with the boundary values of a range counted as outside
createReportLineStrict(label, unit, value, idealMin, idealMax, isReversed) ==
    IF idealMax # Undefined
    THEN ReportLine(label, unit, value, TextRange(idealMin[1], idealMax[1]),
                    IF value >= idealMax[1] THEN "high"
                    ELSE IF value <= idealMin[1] THEN "low" ELSE "ok")
    ELSE IF isReversed
    THEN ReportLine(label, unit, value, TextBelow(idealMin[1]),
                    IF value > idealMin[1] THEN "high" ELSE "ok")
    ELSE ReportLine(label, unit, value, TextAbove(idealMin[1]),
                    IF value < idealMin[1] THEN "low" ELSE "ok")

\* createReportLine with the two one-sided branches exchanged
createReportLineSwapped(label, unit, value, idealMin, idealMax, isReversed) ==
    IF idealMax # Undefined
    THEN ReportLine(label, unit, value, TextRange(idealMin[1], idealMax[1]),
                    IF value > idealMax[1] THEN "high"
                    ELSE IF value < idealMin[1] THEN "low" ELSE "ok")
    ELSE IF ~isReversed
    THEN ReportLine(label, unit, value, TextBelow(idealMin[1]),
                    IF value > idealMin[1] THEN "high" ELSE "ok")
    ELSE ReportLine(label, unit, value, TextAbove(idealMin[1]),
                    IF value < idealMin[1] THEN "low" ELSE "ok")

\* createReportLine with the reversed threshold itself counted as high
createReportLineAtThreshold(label, unit, value, idealMin, idealMax, isReversed) ==
    IF idealMax # Undefined
    THEN ReportLine(label, unit, value, TextRange(idealMin[1], idealMax[1]),
                    IF value > idealMax[1] THEN "high"
                    ELSE IF value < idealMin[1] THEN "low" ELSE "ok")
    ELSE IF isReversed
    THEN ReportLine(label, unit, value, TextBelow(idealMin[1]),
                    IF value >= idealMin[1] THEN "high" ELSE "ok")
    ELSE ReportLine(label, unit, value, TextAbove(idealMin[1]),
                    IF value < idealMin[1] THEN "low" ELSE "ok")

\* createReportLine: the second if of the two-sided branch overrides the first
createReportLine(label, unit, value, idealMin, idealMax, isReversed) ==
    IF idealMax # Undefined
    THEN ReportLine(label, unit, value, TextRange(idealMin[1], idealMax[1]),
                    IF value > idealMax[1] THEN "high"
                    ELSE IF value < idealMin[1] THEN "low" ELSE "ok")
    ELSE IF isReversed
    THEN ReportLine(label, unit, value, TextBelow(idealMin[1]),
                    IF value > idealMin[1] THEN "high" ELSE "ok")
    ELSE ReportLine(label, unit, value, TextAbove(idealMin[1]),
                    IF value < idealMin[1] THEN "low" ELSE "ok")

\* the report as it was before the nitrogen line was added
SoilReportWithoutNitrogen(inputs, ideal) ==
    << createReportLine("pH (CaCl2)", "", inputs.ph[1], ideal.ph.min, ideal.ph.max, FALSE),
       createReportLine("Base Saturation (V%)", "%", inputs.v[1],
                        ideal.v_percent.min, Undefined, FALSE),
       createReportLine("Aluminum (Al3+)", "cmolc", inputs.al[1],
                        ideal.al_cmolc.max, Undefined, TRUE),
       createReportLine("Phosphorus (P)", "ppm", inputs.p[1], ideal.p_ppm.min, Undefined, FALSE),
       createReportLine("Potassium (K)", "ppm", inputs.k[1], ideal.k_ppm.min, Undefined, FALSE),
       createReportLine("Calcium (Ca)", "cmolc", inputs.ca[1],
                        ideal.ca_cmolc.min, Undefined, FALSE),
       createReportLine("Magnesium (Mg)", "cmolc", inputs.mg[1],
                        ideal.mg_cmolc.min, Undefined, FALSE),
       createReportLine("Sulfur (S)", "ppm", inputs.s[1], ideal.s_ppm.min, Undefined, FALSE),
       createReportLine("Boron (B)", "ppm", inputs.b[1], ideal.b_ppm.min, Undefined, FALSE),
       createReportLine("Zinc (Zn)", "ppm", inputs.zn[1], ideal.zn_ppm.min, Undefined, FALSE) >>

\* the report with the aluminum and phosphorus lines exchanged
SoilReportReordered(inputs, ideal) ==
    << createReportLine("pH (CaCl2)", "", inputs.ph[1], ideal.ph.min, ideal.ph.max, FALSE),
       createReportLine("Base Saturation (V%)", "%", inputs.v[1],
                        ideal.v_percent.min, Undefined, FALSE),
       createReportLine("Phosphorus (P)", "ppm", inputs.p[1], ideal.p_ppm.min, Undefined, FALSE),
       createReportLine("Aluminum (Al3+)", "cmolc", inputs.al[1],
                        ideal.al_cmolc.max, Undefined, TRUE),
       createReportLine("Potassium (K)", "ppm", inputs.k[1], ideal.k_ppm.min, Undefined, FALSE),
       createReportLine("Calcium (Ca)", "cmolc", inputs.ca[1],
                        ideal.ca_cmolc.min, Undefined, FALSE),
       createReportLine("Magnesium (Mg)", "cmolc", inputs.mg[1],
                        ideal.mg_cmolc.min, Undefined, FALSE),
       createReportLine("Sulfur (S)", "ppm", inputs.s[1], ideal.s_ppm.min, Undefined, FALSE),
       createReportLine("Boron (B)", "ppm", inputs.b[1], ideal.b_ppm.min, Undefined, FALSE),
       createReportLine("Zinc (Zn)", "ppm", inputs.zn[1], ideal.zn_ppm.min, Undefined, FALSE),
       createReportLine("Nitrogen (N)", "ppm", inputs.n[1], ideal.n_ppm.min, Undefined, FALSE) >>

\* the eleven createReportLine calls, in the order of the source
SoilReport(inputs, ideal) ==
    << createReportLine("pH (CaCl2)", "", inputs.ph[1], ideal.ph.min, ideal.ph.max, FALSE),
       createReportLine("Base Saturation (V%)", "%", inputs.v[1],
                        ideal.v_percent.min, Undefined, FALSE),
       createReportLine("Aluminum (Al3+)", "cmolc", inputs.al[1],
                        ideal.al_cmolc.max, Undefined, TRUE),
       createReportLine("Phosphorus (P)", "ppm", inputs.p[1], ideal.p_ppm.min, Undefined, FALSE),
       createReportLine("Potassium (K)", "ppm", inputs.k[1], ideal.k_ppm.min, Undefined, FALSE),
       createReportLine("Calcium (Ca)", "cmolc", inputs.ca[1],
                        ideal.ca_cmolc.min, Undefined, FALSE),
       createReportLine("Magnesium (Mg)", "cmolc", inputs.mg[1],
                        ideal.mg_cmolc.min, Undefined, FALSE),
       createReportLine("Sulfur (S)", "ppm", inputs.s[1], ideal.s_ppm.min, Undefined, FALSE),
       createReportLine("Boron (B)", "ppm", inputs.b[1], ideal.b_ppm.min, Undefined, FALSE),
       createReportLine("Zinc (Zn)", "ppm", inputs.zn[1], ideal.zn_ppm.min, Undefined, FALSE),
       createReportLine("Nitrogen (N)", "ppm", inputs.n[1], ideal.n_ppm.min, Undefined, FALSE) >>

ReportContent(lines) == [kind |-> "report", lines |-> lines]

\* Object.values(inputs).some(v => isNaN(v)): parseFloat of an empty input is NaN
SomeNaN(inputs) == \E k \in DOMAIN inputs : inputs[k] = <<>>

\* script.js: analyzeSoilBtn click handler
AnalyzeSoil ==
    /\ app = "script"
    /\ IF soilVarietySelect = "" \/ SomeNaN(soilInputs)
       THEN soilResultList' =
                ErrorContent("Please select a variety and enter valid values in all fields.")
       ELSE soilResultList' =
                ReportContent(SoilReport(soilInputs, state.varieties[soilVarietySelect].soil))
    /\ soilResultsHidden' = FALSE
    /\ UNCHANGED <<pageVars, serverVars, soilVarietySelect, soilInputs, seasonVars, cycleVars, sowingVars>>

\* docs/js/map.js: handleSoilAnalysis
handleSoilAnalysis ==
    /\ app = "docs"
    /\ IF soilVarietySelect = ""
       THEN /\ alertMessage' = "Please select a reference variety."
            /\ soilResultsHidden' = TRUE
            /\ UNCHANGED soilResultList
       ELSE /\ IF SomeNaN(soilInputs)
               THEN soilResultList' =
                        ErrorContent("Please fill all fields with valid numbers.")
               ELSE soilResultList' =
                        ReportContent(SoilReport(soilInputs,
                            state.varieties[soilVarietySelect].ideal_soil_conditions))
            /\ soilResultsHidden' = FALSE
            /\ UNCHANGED alertMessage
    /\ UNCHANGED <<pageVars, serverVars, soilVarietySelect, soilInputs, seasonVars, sowingVars,
                   app, timeZone, dateInput, varietySelect, currentRegion,
                   resultElement, resultsHidden>>

(***************************************************************************)
(* Cycle planner                                                           *)
(***************************************************************************)
RECURSIVE SumDays(_)
\* Object.values(cultivar.stages).reduce((acc, days) => acc + days, 0)
SumDays(stages) == IF stages = <<>> THEN 0 ELSE Head(stages).days + SumDays(Tail(stages))

\* a loop that restarts every stage from the planting date
CursorAfterNoAdvance(zone, userDate, stages, i) ==
    IF i = 0 THEN userDate ELSE SetDatePlus(zone, userDate, stages[i].days)

\* the for-in loop of script.js: currentDate after the first i stages
RECURSIVE CursorAfter(_, _, _, _)
CursorAfter(zone, userDate, stages, i) ==
    IF i = 0 THEN userDate
    ELSE SetDatePlus(zone, CursorAfter(zone, userDate, stages, i - 1), stages[i].days)

Line(n, s, e, d) == [stageName |-> n, start |-> s, end |-> e, days |-> d]

\* whether new Date(value + 'T00:00:00') is a date: the value is text of the
\* form y-mm-dd, which the ISO format reads only with a four-digit year, a
\* month 1..12 and a day of that month; otherwise the time value is NaN
DateParses(ymd) ==
    /\ ymd.y >= 1000 /\ ymd.y <= 9999
    /\ ymd.m >= 1 /\ ymd.m <= 12
    /\ ymd.d >= 1 /\ ymd.d <= DaysInMonth(ymd.y, ymd.m)

\* toLocaleDateString of a Date whose time value is NaN
InvalidDateText == [invalid |-> TRUE]

\* getPlantingSeason(NaN, NaN, region): dateNum is NaN, so every comparison
\* of isBetween is false
getPlantingSeasonOfNaN(region) ==
    IF region = NoRegion THEN "RegionNotSelected" ELSE "NotRecommended"

\* the timeline of docs/js/map.js when currentDate is an invalid Date:
\* setDate(NaN) leaves it invalid
TimelineInvalid(stages) ==
    [i \in 1..Len(stages) |->
        Line(stages[i].name, InvalidDateText, InvalidDateText, stages[i].days)]

\* script.js: stageStartDate is a copy of currentDate taken before setDate
TimelineScript(zone, userDate, stages) ==
    [i \in 1..Len(stages) |->
        Line(stages[i].name,
             formatDate(CursorAfter(zone, userDate, stages, i - 1)),
             formatDate(CursorAfter(zone, userDate, stages, i)),
             stages[i].days)]

\* docs/js/map.js: the start shown is currentDate.getTime() - days * 86400000
TimelineDocs(zone, userDate, stages) ==
    [i \in 1..Len(stages) |->
        Line(stages[i].name,
             formatDate(CursorAfter(zone, userDate, stages, i) - stages[i].days * HoursPerDay),
             formatDate(CursorAfter(zone, userDate, stages, i)),
             stages[i].days)]

\* a result that leaves the timeline out when planting is not recommended
ResultContentByWindow(season, cultivar, total, harvest, timeline) ==
    [kind |-> "result", season |-> season, name |-> cultivar.name,
     totalCycleDays |-> total, harvestDate |-> harvest,
     timeline |-> IF season = "NotRecommended" THEN <<>> ELSE timeline]

ResultContent(season, cultivar, total, harvest, timeline) ==
    [kind |-> "result", season |-> season, name |-> cultivar.name,
     totalCycleDays |-> total, harvestDate |-> harvest, timeline |-> timeline]

\* script.js: calculateButton click handler
CalculateCycle ==
    /\ app = "script"
    /\ IF dateInput = <<>> \/ varietySelect = ""
       THEN /\ resultElement' = ErrorContent("Please select a variety and a planting date.")
            /\ resultsHidden' = FALSE
       ELSE IF ~DateParses(dateInput[1])
       THEN /\ resultElement' =
                 ErrorContent("Invalid planting date. Please use the date picker.")
            /\ resultsHidden' = FALSE
       ELSE LET cultivar == state.varieties[varietySelect]
                regionData == ZoningLookup(currentRegion)
                userDate == NewDateLocalMidnight(timeZone, dateInput[1])
                plantingSeason == getPlantingSeason_script(GetUTCMonth1(userDate),
                                                           GetUTCDate(userDate), regionData)
            IN  IF plantingSeason = "TypeError"
                THEN \* the handler throws after hiding the container
                     /\ resultsHidden' = TRUE
                     /\ UNCHANGED resultElement
                ELSE /\ resultElement' =
                          ResultContent(plantingSeason, cultivar, SumDays(cultivar.stages),
                              formatDate(CursorAfter(timeZone, userDate, cultivar.stages,
                                                     Len(cultivar.stages))),
                              TimelineScript(timeZone, userDate, cultivar.stages))
                     /\ resultsHidden' = FALSE
    /\ UNCHANGED <<pageVars, serverVars, app, timeZone, dateInput, varietySelect, currentRegion, alertMessage,
                   seasonVars, sowingVars, soilVars>>

\* docs/js/map.js: handleCycleCalculation
handleCycleCalculation ==
    /\ app = "docs"
    /\ IF varietySelect = "" \/ dateInput = <<>> \/ currentRegion = ""
       THEN /\ resultsHidden' = TRUE
            /\ alertMessage' = "Please select a variety, region, and planting date."
            /\ UNCHANGED resultElement
       ELSE LET cultivar == state.varieties[varietySelect]
                regionData == ZoningLookup(currentRegion)
                userDate == NewDateLocalMidnight(timeZone, dateInput[1])
                plantingSeason == getPlantingSeason(GetUTCMonth1(userDate),
                                                    GetUTCDate(userDate), regionData)
            IN  /\ resultElement' =
                     IF DateParses(dateInput[1])
                     THEN ResultContent(plantingSeason, cultivar, SumDays(cultivar.stages),
                              formatDate(CursorAfter(timeZone, userDate, cultivar.stages,
                                                     Len(cultivar.stages))),
                              TimelineDocs(timeZone, userDate, cultivar.stages))
                     ELSE \* no isNaN test: the NaN date flows through
                          ResultContent(getPlantingSeasonOfNaN(regionData), cultivar,
                              SumDays(cultivar.stages), InvalidDateText,
                              TimelineInvalid(cultivar.stages))
                /\ resultsHidden' = FALSE
                /\ UNCHANGED alertMessage
    /\ UNCHANGED <<pageVars, serverVars, app, timeZone, dateInput, varietySelect, currentRegion,
                   seasonVars, sowingVars, soilVars>>

\* the state object once the page is loaded: script.js holds its tables in
\* constants, the docs page holds state.zoningData and the varieties fetched
\* after login
LoadedState(a) ==
    [token |-> IF a = "docs" THEN <<"jwt">> ELSE Null,
     varieties |-> VarietiesOf(a),
     fields |-> <<>>,
     plants |-> <<>>,
     currentMapMode |-> "view",
     currentPlantLocation |-> Null,
     currentMapArea |-> [hectares |-> 0, squareMeters |-> 0],
     displayUnit |-> "ha",
     zoningData |-> zoningData]

PageLoaded == state = LoadedState(app)

\* the browser side with nothing stored, the panels as exitCreationMode
\* leaves them, nothing drawn and nothing selected
UiIdle ==
    [localStorage |-> Null,
     screen |-> "auth",
     view |-> "dashboard-view",
     loginErrorMessage |-> "",
     loginButtonDisabled |-> FALSE,
     viewControlsHidden |-> FALSE,
     fieldCreationControlsHidden |-> TRUE,
     plantCreationControlsHidden |-> TRUE,
     selectionControlsHidden |-> TRUE,
     plantFormDisabled |-> TRUE,
     createFieldFromSelectionBtnDisabled |-> TRUE,
     fieldNameInput |-> "",
     saveFieldBtnDisabled |-> FALSE,
     mapMessage |-> "",
     polygonPoints |-> <<>>,
     tempPlantMarker |-> Null,
     fieldsLayer |-> <<>>,
     plantsLayer |-> <<>>,
     currentSelectedPlants |-> <<>>,
     \* history: the number of the loadMapData call whose rows are drawn
     \* (0 for a call before the run)
     reloadDrawn |-> 0]

\* the calculators are used on the main screen, with the token of the state
\* object in localStorage and no call in flight
ClientIdle ==
    /\ ui = [UiIdle EXCEPT !.localStorage = state.token, !.screen = "main"]
    /\ pending = {}
    /\ callSeq = 1

\* an empty database and no request served yet
ServerIdle ==
    /\ dbFields = {}
    /\ dbPlants = {}
    /\ dbSeq = [fields |-> 1, plants |-> 1]
    /\ response = <<>>

CycleIdle ==
    /\ app = "script"
    /\ timeZone = [off |-> 0, dst |-> FALSE]
    /\ dateInput = <<>>
    /\ varietySelect = ""
    /\ currentRegion = ""
    /\ resultElement = EmptyContent
    /\ resultsHidden = TRUE
    /\ alertMessage = ""

SowingIdle ==
    /\ sowingAreaInput = <<>>
    /\ sowingVarietySelect = ""
    /\ germinationRateInput = <<>>
    /\ fieldConditionsSelect = "good"
    /\ sowingResultText = EmptyContent
    /\ sowingResultsHidden = TRUE

SoilIdle ==
    /\ soilVarietySelect = ""
    /\ soilInputs = [k \in NutrientKeys |-> <<>>]
    /\ soilResultList = EmptyContent
    /\ soilResultsHidden = TRUE

SeasonIdle ==
    /\ seasonArgs = [month |-> 1, day |-> 1, region |-> NoRegion]
    /\ insideRet = <<>>
    /\ seasonRet = "none"
    /\ seasonRetScript = "none"

LastYear == 2025
InputDates ==
    {<<>>} \cup { <<[y |-> y, m |-> m, d |-> d]>> :
                   y \in 2024..LastYear, m \in {1, 3, 6, 10, 12}, d \in {1, 15, 28} }

InitCycle ==
    /\ app \in {"script", "docs"}
    /\ timeZone \in TimeZones
    /\ dateInput \in InputDates
    /\ varietySelect \in {""} \cup DOMAIN VarietiesOf(app)
    /\ currentRegion \in {"", "mt-south", "ba-rainfed", "mt-west"}
    /\ resultElement = EmptyContent
    /\ resultsHidden = TRUE
    /\ alertMessage = ""
    /\ SeasonIdle
    /\ SowingIdle
    /\ SoilIdle
    /\ PageLoaded
    /\ ServerIdle
    /\ ClientIdle

NextCycle == CalculateCycle \/ handleCycleCalculation

SpecCycle == InitCycle /\ [][NextCycle]_vars

\* script.js: startAppBtn click handler; populateVarieties rebuilds the three
\* variety selects, which leaves each on its empty first option
StartApp ==
    /\ app = "script"
    /\ \E r \in {""} \cup DOMAIN zoningData : currentRegion' = r
    /\ varietySelect' = ""
    /\ sowingVarietySelect' = ""
    /\ soilVarietySelect' = ""
    /\ UNCHANGED <<pageVars, serverVars, seasonVars, app, timeZone, dateInput,
                   resultElement, resultsHidden, alertMessage,
                   sowingAreaInput, germinationRateInput, fieldConditionsSelect,
                   sowingResultText, sowingResultsHidden,
                   soilInputs, soilResultList, soilResultsHidden>>

\* script.js: varietySelect change handler (the user picks an option)
VarietySelectChange ==
    /\ app = "script"
    /\ \E v \in {""} \cup DOMAIN state.varieties : varietySelect' = v
    /\ resultsHidden' = TRUE
    /\ UNCHANGED <<pageVars, serverVars, seasonVars, sowingVars, soilVars, app, timeZone,
                   dateInput, currentRegion, resultElement, alertMessage>>

\* docs page: the user picks an option of the region select, which
\* handleCycleCalculation reads on the next click
RegionSelectChange ==
    /\ app = "docs"
    /\ \E r \in {""} \cup DOMAIN state.zoningData : currentRegion' = r
    /\ UNCHANGED <<pageVars, serverVars, seasonVars, sowingVars, soilVars, app, timeZone,
                   dateInput, varietySelect, resultElement, resultsHidden, alertMessage>>

\* the planner used again and again with one planting date, the region and
\* the variety being changed in between
RegionDates ==
    { <<[y |-> 2025, m |-> 1, d |-> 1]>>, <<[y |-> 2025, m |-> 2, d |-> 10]>> }

InitRegions ==
    /\ app \in {"script", "docs"}
    /\ timeZone \in TimeZones
    /\ dateInput \in RegionDates
    /\ varietySelect \in DOMAIN VarietiesOf(app)
    /\ currentRegion = "mt-south"
    /\ resultElement = EmptyContent
    /\ resultsHidden = TRUE
    /\ alertMessage = ""
    /\ SeasonIdle
    /\ SowingIdle
    /\ SoilIdle
    /\ PageLoaded
    /\ ServerIdle
    /\ ClientIdle

NextRegions ==
    \/ CalculateCycle
    \/ handleCycleCalculation
    \/ StartApp
    \/ VarietySelectChange
    \/ RegionSelectChange

SpecRegions == InitRegions /\ [][NextRegions]_vars

\* the planner with text in the date input that is not a date: a year typed
\* with five digits, a month 13
UnparsedDates ==
    { <<[y |-> 20250, m |-> 1, d |-> 1]>>, <<[y |-> 2025, m |-> 13, d |-> 1]>> }

InitInvalidDate ==
    /\ app \in {"script", "docs"}
    /\ timeZone \in TimeZones
    /\ dateInput \in UnparsedDates \cup {<<>>, <<[y |-> 2025, m |-> 1, d |-> 1]>>}
    /\ varietySelect \in {""} \cup DOMAIN VarietiesOf(app)
    /\ currentRegion \in {"", "mt-south", "ba-rainfed", "mt-west"}
    /\ resultElement = EmptyContent
    /\ resultsHidden = TRUE
    /\ alertMessage = ""
    /\ SeasonIdle
    /\ SowingIdle
    /\ SoilIdle
    /\ PageLoaded
    /\ ServerIdle
    /\ ClientIdle

SpecInvalidDate == InitInvalidDate /\ [][NextCycle]_vars

MaxArea == 4
AreaInputs == {<<>>, <<0>>, <<-2>>, <<10>>} \cup {<<a>> : a \in 1..MaxArea}
GerminationInputs == {<<>>, <<0>>, <<-5>>, <<150>>} \cup {<<g>> : g \in 1..100}

InitSowing ==
    /\ app \in {"script", "docs"}
    /\ sowingAreaInput \in AreaInputs
    /\ sowingVarietySelect \in {""} \cup DOMAIN VarietiesOf(app)
    /\ germinationRateInput \in GerminationInputs
    /\ fieldConditionsSelect \in {"good", "average", "poor"}
    /\ sowingResultText = EmptyContent
    /\ sowingResultsHidden = TRUE
    /\ timeZone = [off |-> 0, dst |-> FALSE]
    /\ dateInput = <<>>
    /\ varietySelect = ""
    /\ currentRegion = ""
    /\ resultElement = EmptyContent
    /\ resultsHidden = TRUE
    /\ alertMessage = ""
    /\ SeasonIdle
    /\ SoilIdle
    /\ PageLoaded
    /\ ServerIdle
    /\ ClientIdle

NextSowing == CalculateSowing \/ handleSowingCalculation

SpecSowing == InitSowing /\ [][NextSowing]_vars

\* the measured values tried for each nutrient, around the thresholds of
\* the varieties (hundredths)
SoilInputValues ==
    [k \in NutrientKeys |->
        CASE k = "ph" -> {<<>>, <<550>>, <<580>>, <<600>>, <<620>>, <<650>>, <<700>>}
          [] k = "p"  -> {<<>>, <<1500>>, <<2000>>, <<2500>>, <<90000>>}
          [] k = "al" -> {<<>>, <<20>>, <<30>>, <<50>>}
          [] k = "v"  -> {<<5500>>, <<6000>>}
          [] k = "k"  -> {<<11000>>, <<15000>>}
          [] k = "ca" -> {<<100>>, <<250>>}
          [] k = "mg" -> {<<50>>, <<80>>}
          [] k = "s"  -> {<<900>>}
          [] k = "b"  -> {<<60>>}
          [] k = "zn" -> {<<130>>}
          [] k = "n"  -> {<<20000>>}]

\* a fully filled form, and the same form with exactly one field left empty
\* (or holding text parseFloat cannot read)
SoilFilledForm ==
    [ph |-> <<620>>, v |-> <<6000>>, al |-> <<20>>, p |-> <<2500>>, k |-> <<15000>>,
     ca |-> <<250>>, mg |-> <<80>>, s |-> <<900>>, b |-> <<60>>, zn |-> <<130>>,
     n |-> <<20000>>]

SoilOneEmpty == { [SoilFilledForm EXCEPT ![k] = <<>>] : k \in NutrientKeys }

InitSoil ==
    /\ app \in {"script", "docs"}
    /\ soilVarietySelect \in {""} \cup DOMAIN VarietiesOf(app)
    /\ soilInputs \in [ph : SoilInputValues["ph"], v : SoilInputValues["v"],
                        al : SoilInputValues["al"], p : SoilInputValues["p"],
                        k : SoilInputValues["k"], ca : SoilInputValues["ca"],
                        mg : SoilInputValues["mg"], s : SoilInputValues["s"],
                        b : SoilInputValues["b"], zn : SoilInputValues["zn"],
                        n : SoilInputValues["n"]]
                    \cup SoilOneEmpty
    /\ soilResultList = EmptyContent
    /\ soilResultsHidden = TRUE
    /\ timeZone = [off |-> 0, dst |-> FALSE]
    /\ dateInput = <<>>
    /\ varietySelect = ""
    /\ currentRegion = ""
    /\ resultElement = EmptyContent
    /\ resultsHidden = TRUE
    /\ alertMessage = ""
    /\ SeasonIdle
    /\ SowingIdle
    /\ PageLoaded
    /\ ServerIdle
    /\ ClientIdle

NextSoil == AnalyzeSoil \/ handleSoilAnalysis

SpecSoil == InitSoil /\ [][NextSoil]_vars

\* the three calculators of one page used in any order, any number of
\* times, on inputs valid and invalid, with the application state as the
\* map part of the page may have left it
SampleField == [id |-> 1, name |-> "North", area_hectares |-> 12]

PageStates(a) ==
    { [LoadedState(a) EXCEPT !.token = t, !.currentMapMode = mode, !.fields = f,
                             !.currentMapArea = [hectares |-> h, squareMeters |-> h * 10000]] :
        t \in {Null, <<"jwt">>},
        mode \in {"view", "create-field", "create-plant"},
        f \in {<<>>, <<SampleField>>},
        h \in {0, 12} }

InitCalculators ==
    /\ app \in {"script", "docs"}
    /\ state \in PageStates(app)
    /\ timeZone = [off |-> -3, dst |-> FALSE]
    /\ dateInput \in {<<>>, <<[y |-> 2025, m |-> 1, d |-> 1]>>}
    /\ varietySelect \in {"", "tmg 84 b3xf"}
    /\ currentRegion \in {"", "mt-south"}
    /\ resultElement = EmptyContent
    /\ resultsHidden = TRUE
    /\ alertMessage = ""
    /\ sowingAreaInput \in {<<>>, <<10>>}
    /\ sowingVarietySelect \in {"", "tmg 84 b3xf"}
    /\ germinationRateInput = <<90>>
    /\ fieldConditionsSelect = "average"
    /\ sowingResultText = EmptyContent
    /\ sowingResultsHidden = TRUE
    /\ soilVarietySelect \in {"", "brs 433"}
    /\ soilInputs \in {SoilFilledForm, [SoilFilledForm EXCEPT !.n = <<>>]}
    /\ soilResultList = EmptyContent
    /\ soilResultsHidden = TRUE
    /\ SeasonIdle
    /\ ServerIdle
    /\ ClientIdle

NextCalculators == NextCycle \/ NextSowing \/ NextSoil

SpecCalculators == InitCalculators /\ [][NextCalculators]_vars

(***************************************************************************)
(* Backend: authenticateToken and the protected routes of server.js        *)
(***************************************************************************)
Users == {1, 2}

\* a JSON web token: the payload of /api/login ({ userId }), whether its
\* signature was made with JWT_SECRET, and whether its exp has passed
Jwt(u, signed, expired) == [userId |-> u, signed |-> signed, expired |-> expired]

\* jwt.verify accepting any well-formed token (decode without verification)
jwtDecodeOnly(token) == <<[userId |-> token.userId]>>

\* jwt.verify(token, JWT_SECRET): <<payload>>, or <<>> when it reports err
jwtVerify(token) ==
    IF token.signed /\ ~token.expired THEN <<[userId |-> token.userId]>> ELSE <<>>

\* the authorization header as authHeader.split(' ') sees it: <<>> when the
\* header is absent, else its parts
AuthHeaders ==
    { <<>> }
    \cup { <<"Bearer", Jwt(u, TRUE, FALSE)>> : u \in Users }
    \cup { <<"Bearer", Jwt(1, FALSE, FALSE)>>, <<"Bearer", Jwt(1, TRUE, TRUE)>> }

\* authenticateToken: the response it sends, or next() with req.user
authenticateToken(authHeader) ==
    IF Len(authHeader) < 2
    THEN [next |-> FALSE, status |-> 401, message |-> "Access token is required."]
    ELSE LET user == jwtVerify(authHeader[2])
         IN  IF user = <<>>
             THEN [next |-> FALSE, status |-> 403,
                   message |-> "Token is invalid or has expired."]
             ELSE [next |-> TRUE, user |-> user[1]]

Request(method, path, authHeader, id, body) ==
    [method |-> method, path |-> path, authorization |-> authHeader, id |-> id,
     body |-> body]

\* what was sent for a request, and how many pool.query calls were made
Response(req, status, body, queries) ==
    [request |-> req, status |-> status, body |-> body, queries |-> queries]

Message(text) == [kind |-> "message", message |-> text]

\* the response of the middleware when it does not call next()
Rejected(req, auth) == Response(req, auth.status, Message(auth.message), 0)

\* rows ORDER BY created_at (ids are serial, so creation order is id order)
RECURSIVE OrderByCreatedAt(_, _)
OrderByCreatedAt(rows, desc) ==
    IF rows = {} THEN <<>>
    ELSE LET first == CHOOSE r \in rows :
                          \A o \in rows : IF desc THEN r.id >= o.id ELSE r.id <= o.id
         IN  <<first>> \o OrderByCreatedAt(rows \ {first}, desc)

\* ... WHERE user_id = $1
OfUser(rows, userId) == { r \in rows : r.user_id = userId }

\* the WHERE clause of the by-id queries without its user_id test
ById(rows, id, userId) == { r \in rows : r.id = id }

\* ... WHERE id = $1 AND user_id = $2
ByIdOfUser(rows, id, userId) == { r \in rows : r.id = id /\ r.user_id = userId }

\* ... FROM plants WHERE field_id = $1 AND user_id = $2
PlantsOfField(id, userId) ==
    { p \in dbPlants : p.field_id = <<id>> /\ p.user_id = userId }

\* SELECT * FROM varieties ORDER BY name ASC
VarietyRows == << apiVarieties["bare"], apiVarieties["brs 433"],
                  apiVarieties["single"], apiVarieties["tmg 84 b3xf"] >>

\* rows inserted over a run, both tables together
MaxRows == 2
RowsInserted == (dbSeq.fields - 1) + (dbSeq.plants - 1)

\* req.body of POST /api/fields: a complete one, and one whose area is falsy
FieldBodies ==
    { [name |-> "North", geometry |-> <<"polygon">>, area_hectares |-> 12],
      [name |-> "North", geometry |-> <<"polygon">>, area_hectares |-> 0] }

\* req.body of POST /api/plants: with and without a unique tag, and one
\* without a location.  The plant names field 1 whoever owns that field: the
\* handler does not look the field up.
PlantBodies ==
    { [field_id |-> <<1>>, unique_tag |-> t, location |-> <<"point">>,
       plant_type |-> "tree"] : t \in {Null, <<"T1">>} }
    \cup { [field_id |-> Null, unique_tag |-> Null, location |-> Null,
            plant_type |-> "tree"] }

pageIdleVars == <<seasonVars, cycleVars, sowingVars, soilVars, pageVars>>

\* whether pool.query resolves (FALSE: it rejects and the catch branch
\* answers); drawn only for a request that reaches a handler
QueryOutcomes(h) == IF authenticateToken(h).next THEN BOOLEAN ELSE {TRUE}

\* GET /api/varieties
GetVarieties ==
    \E h \in AuthHeaders : \E ok \in QueryOutcomes(h) :
        LET req == Request("GET", "/api/varieties", h, <<>>, <<>>)
            auth == authenticateToken(h)
        IN  /\ response' =
                 IF ~auth.next THEN Rejected(req, auth)
                 ELSE IF ~ok
                 THEN Response(req, 500,
                          [kind |-> "text", text |-> "Internal Server Error"], 1)
                 ELSE Response(req, 200, [kind |-> "rows", rows |-> VarietyRows], 1)
            /\ UNCHANGED <<dbFields, dbPlants, dbSeq, pageIdleVars>>

\* GET /api/fields
GetFields ==
    \E h \in AuthHeaders : \E ok \in QueryOutcomes(h) :
        LET req == Request("GET", "/api/fields", h, <<>>, <<>>)
            auth == authenticateToken(h)
        IN  /\ response' =
                 IF ~auth.next THEN Rejected(req, auth)
                 ELSE IF ~ok
                 THEN Response(req, 500, Message("Internal Server Error"), 1)
                 ELSE Response(req, 200,
                          [kind |-> "rows",
                           rows |-> OrderByCreatedAt(OfUser(dbFields, auth.user.userId),
                                                     TRUE)], 1)
            /\ UNCHANGED <<dbFields, dbPlants, dbSeq, pageIdleVars>>

\* GET /api/fields/:id
GetField ==
    \E h \in AuthHeaders, id \in 1..MaxRows : \E ok \in QueryOutcomes(h) :
        LET req == Request("GET", "/api/fields/:id", h, <<id>>, <<>>)
            auth == authenticateToken(h)
        IN  /\ response' =
                 IF ~auth.next THEN Rejected(req, auth)
                 ELSE IF ~ok
                 THEN Response(req, 500, Message("Internal Server Error"), 1)
                 ELSE LET fieldResult == ByIdOfUser(dbFields, id, auth.user.userId)
                      IN  IF fieldResult = {}
                          THEN Response(req, 404,
                                   Message("Field not found or permission denied."), 1)
                          ELSE LET fieldData == CHOOSE f \in fieldResult : TRUE
                               IN  Response(req, 200,
                                       [kind |-> "field", row |-> fieldData,
                                        plants |-> OrderByCreatedAt(
                                            PlantsOfField(id, auth.user.userId),
                                            FALSE)], 2)
            /\ UNCHANGED <<dbFields, dbPlants, dbSeq, pageIdleVars>>

\* GET /api/plants/:id
GetPlant ==
    \E h \in AuthHeaders, id \in 1..MaxRows : \E ok \in QueryOutcomes(h) :
        LET req == Request("GET", "/api/plants/:id", h, <<id>>, <<>>)
            auth == authenticateToken(h)
        IN  /\ response' =
                 IF ~auth.next THEN Rejected(req, auth)
                 ELSE IF ~ok
                 THEN Response(req, 500, Message("Internal Server Error"), 1)
                 ELSE LET result == ByIdOfUser(dbPlants, id, auth.user.userId)
                      IN  IF result = {}
                          THEN Response(req, 404,
                                   Message("Plant not found or permission denied."), 1)
                          ELSE Response(req, 200,
                                   [kind |-> "row", row |-> CHOOSE r \in result : TRUE],
                                   1)
            /\ UNCHANGED <<dbFields, dbPlants, dbSeq, pageIdleVars>>

\* GET /api/plants
GetPlants ==
    \E h \in AuthHeaders : \E ok \in QueryOutcomes(h) :
        LET req == Request("GET", "/api/plants", h, <<>>, <<>>)
            auth == authenticateToken(h)
        IN  /\ response' =
                 IF ~auth.next THEN Rejected(req, auth)
                 ELSE IF ~ok
                 THEN Response(req, 500, Message("Internal Server Error"), 1)
                 ELSE Response(req, 200,
                          [kind |-> "rows",
                           rows |-> OrderByCreatedAt(OfUser(dbPlants, auth.user.userId),
                                                     TRUE)], 1)
            /\ UNCHANGED <<dbFields, dbPlants, dbSeq, pageIdleVars>>

\* POST /api/fields
PostField ==
    \E h \in AuthHeaders, body \in FieldBodies : \E ok \in QueryOutcomes(h) :
        LET req == Request("POST", "/api/fields", h, <<>>, <<body>>)
            auth == authenticateToken(h)
        IN  IF ~auth.next
            THEN /\ response' = Rejected(req, auth)
                 /\ UNCHANGED <<dbFields, dbPlants, dbSeq, pageIdleVars>>
            ELSE IF body.name = "" \/ body.geometry = Null \/ body.area_hectares = 0
            THEN /\ response' = Response(req, 400,
                                    Message("Name, geometry, and area are required."), 0)
                 /\ UNCHANGED <<dbFields, dbPlants, dbSeq, pageIdleVars>>
            ELSE IF ~ok
            THEN /\ response' = Response(req, 500, Message("Internal Server Error"), 1)
                 /\ UNCHANGED <<dbFields, dbPlants, dbSeq, pageIdleVars>>
            ELSE LET row == [id |-> dbSeq.fields, user_id |-> auth.user.userId,
                             name |-> body.name, geometry |-> body.geometry,
                             area_hectares |-> body.area_hectares]
                 IN  /\ RowsInserted < MaxRows
                     /\ dbFields' = dbFields \cup {row}
                     /\ dbSeq' = [dbSeq EXCEPT !.fields = @ + 1]
                     /\ response' = Response(req, 201, [kind |-> "row", row |-> row], 1)
                     /\ UNCHANGED <<dbPlants, pageIdleVars>>

\* POST /api/plants
PostPlant ==
    \E h \in AuthHeaders, body \in PlantBodies : \E ok \in QueryOutcomes(h) :
        LET req == Request("POST", "/api/plants", h, <<>>, <<body>>)
            auth == authenticateToken(h)
        IN  IF ~auth.next
            THEN /\ response' = Rejected(req, auth)
                 /\ UNCHANGED <<dbFields, dbPlants, dbSeq, pageIdleVars>>
            ELSE IF body.location = Null \/ body.plant_type = ""
            THEN /\ response' = Response(req, 400,
                                    Message("Location and plant type are required."), 0)
                 /\ UNCHANGED <<dbFields, dbPlants, dbSeq, pageIdleVars>>
            ELSE IF ~ok
            THEN /\ response' = Response(req, 500, Message("Internal Server Error"), 1)
                 /\ UNCHANGED <<dbFields, dbPlants, dbSeq, pageIdleVars>>
            ELSE LET row == [id |-> dbSeq.plants, user_id |-> auth.user.userId,
                             field_id |-> body.field_id, unique_tag |-> body.unique_tag,
                             location |-> body.location, plant_type |-> body.plant_type]
                 IN  /\ RowsInserted < MaxRows
                     \* the serial id is consumed whether or not the row goes in
                     /\ dbSeq' = [dbSeq EXCEPT !.plants = @ + 1]
                     /\ IF body.unique_tag # Null
                           /\ \E p \in dbPlants : p.unique_tag = body.unique_tag
                        THEN \* err.code 23505 on plants_unique_tag_key
                             /\ response' = Response(req, 409,
                                    Message("This unique tag is already in use."), 1)
                             /\ UNCHANGED dbPlants
                        ELSE /\ dbPlants' = dbPlants \cup {row}
                             /\ response' = Response(req, 201,
                                                [kind |-> "row", row |-> row], 1)
                     /\ UNCHANGED <<dbFields, pageIdleVars>>

\* DELETE /api/fields/:id
DeleteField ==
    \E h \in AuthHeaders, id \in 1..MaxRows : \E ok \in QueryOutcomes(h) :
        LET req == Request("DELETE", "/api/fields/:id", h, <<id>>, <<>>)
            auth == authenticateToken(h)
        IN  IF ~auth.next
            THEN /\ response' = Rejected(req, auth)
                 /\ UNCHANGED <<dbFields, dbPlants, dbSeq, pageIdleVars>>
            ELSE IF ~ok
            THEN /\ response' = Response(req, 500, Message("Internal Server Error"), 1)
                 /\ UNCHANGED <<dbFields, dbPlants, dbSeq, pageIdleVars>>
            ELSE LET result == ByIdOfUser(dbFields, id, auth.user.userId)
                 IN  /\ dbFields' = dbFields \ result
                     /\ response' =
                          IF result = {}
                          THEN Response(req, 404,
                                   Message("Field not found or permission denied."), 1)
                          ELSE Response(req, 200,
                                   [kind |-> "deleted",
                                    message |-> "Field deleted successfully.",
                                    row |-> CHOOSE f \in result : TRUE], 1)
                     /\ UNCHANGED <<dbPlants, dbSeq, pageIdleVars>>

\* DELETE /api/plants/:id
DeletePlant ==
    \E h \in AuthHeaders, id \in 1..MaxRows : \E ok \in QueryOutcomes(h) :
        LET req == Request("DELETE", "/api/plants/:id", h, <<id>>, <<>>)
            auth == authenticateToken(h)
        IN  IF ~auth.next
            THEN /\ response' = Rejected(req, auth)
                 /\ UNCHANGED <<dbFields, dbPlants, dbSeq, pageIdleVars>>
            ELSE IF ~ok
            THEN /\ response' = Response(req, 500, Message("Internal Server Error"), 1)
                 /\ UNCHANGED <<dbFields, dbPlants, dbSeq, pageIdleVars>>
            ELSE LET result == ByIdOfUser(dbPlants, id, auth.user.userId)
                 IN  /\ dbPlants' = dbPlants \ result
                     /\ response' =
                          IF result = {}
                          THEN Response(req, 404,
                                   Message("Plant not found or permission denied."), 1)
                          ELSE Response(req, 200,
                                   [kind |-> "deleted",
                                    message |-> "Plant deleted successfully.",
                                    row |-> CHOOSE r \in result : TRUE], 1)
                     /\ UNCHANGED <<dbFields, dbSeq, pageIdleVars>>

\* the server after start-up, with empty fields and plants tables
InitServer ==
    /\ ServerIdle
    /\ CycleIdle
    /\ SeasonIdle
    /\ SowingIdle
    /\ SoilIdle
    /\ PageLoaded
    /\ ClientIdle

NextServer ==
    \/ GetVarieties
    \/ GetFields
    \/ GetField
    \/ GetPlant
    \/ GetPlants
    \/ PostField
    \/ PostPlant
    \/ DeleteField
    \/ DeletePlant

SpecServer == InitServer /\ [][NextServer]_vars

(***************************************************************************)
(* Browser side: main.js, auth.js, api.js, the map module and handlers.js  *)
(***************************************************************************)
\* what the handlers read and write, as one value
Page == [state |-> state, ui |-> ui, pending |-> pending, callSeq |-> callSeq]

\* the step that leaves the page as pg
Becomes(pg) ==
    /\ state' = pg.state
    /\ ui' = pg.ui
    /\ pending' = pg.pending
    /\ callSeq' = pg.callSeq

\* tokens that /api/login hands out
Tokens == {"jwt", "jwt2"}

\* API calls made over a run
MaxCalls == 3

\* api.js: fetch(...) of one of its functions; the call is in flight until
\* its response is delivered.  stored is what localStorage holds as the call
\* is sent.
fetch(pg, api, token, arg) ==
    [pg EXCEPT !.pending = @ \cup { [n |-> pg.callSeq, api |-> api, token |-> token,
                                     stored |-> pg.ui.localStorage, arg |-> arg,
                                     result |-> <<>>] },
               !.callSeq = @ + 1]

\* main.js: the auth-error listener (auth.logout, showScreen, showMessage)
authError(pg) ==
    [pg EXCEPT !.ui.localStorage = Null, !.ui.screen = "auth",
               !.ui.loginErrorMessage = "Your session has expired. Please log in again."]

\* api.js handleResponse without its dispatch of auth-error
handleResponseSilently(pg, status) == pg

\* api.js handleResponse: dispatchEvent runs the listener before the caller
\* is resumed with the data or the error
handleResponse(pg, status) == IF status \in {401, 403} THEN authError(pg) ELSE pg

\* handlers.js loadMapData up to its await: both list requests leave together
loadMapData(pg) ==
    IF pg.state.token = Null THEN pg
    ELSE fetch(pg, "loadMapData", pg.state.token, <<>>)

\* handlers.js onLoginSuccess up to its await
onLoginSuccess(pg, token) ==
    fetch([pg EXCEPT !.state.token = <<token>>, !.ui.screen = "setup"],
          "fetchVarieties", <<token>>, <<>>)

NoArea == [hectares |-> 0, squareMeters |-> 0]

\* map module clearDrawing, with the mapchange listener of main.js
clearDrawing(pg) ==
    [pg EXCEPT !.ui.polygonPoints = <<>>, !.state.currentMapArea = NoArea]

\* handlers.js exitCreationMode that keeps the drawing
exitCreationModeKeepsDrawing(pg) ==
    loadMapData([pg EXCEPT !.state.currentMapMode = "view",
                           !.ui.fieldCreationControlsHidden = TRUE,
                           !.ui.plantCreationControlsHidden = TRUE,
                           !.ui.viewControlsHidden = FALSE,
                           !.ui.tempPlantMarker = Null,
                           !.ui.fieldNameInput = "",
                           !.ui.saveFieldBtnDisabled = FALSE,
                           !.ui.mapMessage = "",
                           !.ui.plantFormDisabled = TRUE,
                           !.state.currentPlantLocation = Null])

\* handlers.js exitCreationMode
exitCreationMode(pg) ==
    loadMapData([clearDrawing(pg) EXCEPT !.state.currentMapMode = "view",
                                         !.ui.fieldCreationControlsHidden = TRUE,
                                         !.ui.plantCreationControlsHidden = TRUE,
                                         !.ui.viewControlsHidden = FALSE,
                                         !.ui.tempPlantMarker = Null,
                                         !.ui.fieldNameInput = "",
                                         !.ui.saveFieldBtnDisabled = FALSE,
                                         !.ui.mapMessage = "",
                                         !.ui.plantFormDisabled = TRUE,
                                         !.state.currentPlantLocation = Null])

\* handlers.js clearSelectionState
clearSelectionState(pg) ==
    [pg EXCEPT !.ui.currentSelectedPlants = <<>>,
               !.ui.selectionControlsHidden = TRUE,
               !.ui.viewControlsHidden = FALSE]

\* places of the map a click or a plant can be at
LatLngs == { [lat |-> 0, lng |-> 0], [lat |-> 0, lng |-> 2], [lat |-> 2, lng |-> 0] }

\* points of one drawing
MaxPoints == 3

\* map module getPolygonGeometry: null under three points, else the ring of
\* [lng, lat] pairs closed by its first point
getPolygonGeometry(points) ==
    IF Len(points) < 3 THEN Null
    ELSE << [type |-> "Polygon",
             coordinates |-> [i \in 1..(Len(points) + 1) |->
                                 LET p == points[IF i <= Len(points) THEN i ELSE 1]
                                 IN  <<p.lng, p.lat>>]] >>

\* turf.area of a polygon, as the surveyor's formula on its ring (in units
\* of which 10000 make a hectare)
RECURSIVE RingSum(_, _)
RingSum(ring, i) ==
    IF i >= Len(ring) THEN 0
    ELSE ring[i][1] * ring[i + 1][2] - ring[i + 1][1] * ring[i][2] + RingSum(ring, i + 1)

turfArea(geometry) ==
    LET a == Abs(RingSum(geometry.coordinates, 1))
    IN  [hectares |-> a, squareMeters |-> a * 10000]

\* addPolygonMarker without its mapchange event
addPolygonMarkerSilently(pg, latlng) ==
    [pg EXCEPT !.ui.polygonPoints = Append(@, latlng)]

\* map module addPolygonMarker, with the mapchange listener of main.js: the
\* docs copies dispatch from the third point on, the frontend copy always
\* (calculateArea gives zero under three points)
addPolygonMarker(pg, latlng) ==
    LET points == Append(pg.ui.polygonPoints, latlng)
        geometry == getPolygonGeometry(points)
    IN  [pg EXCEPT !.ui.polygonPoints = points,
                   !.state.currentMapArea =
                       IF geometry # Null THEN turfArea(geometry[1])
                       ELSE IF app = "frontend" THEN NoArea
                       ELSE @]

\* handlers.js setPlantLocation
setPlantLocation(pg, latlng) ==
    IF pg.state.currentMapMode # "create-plant" THEN pg
    ELSE [pg EXCEPT !.state.currentPlantLocation = <<latlng>>,
                    !.ui.tempPlantMarker = <<latlng>>,
                    !.ui.plantFormDisabled = FALSE]

\* handleMapClick that draws whatever the mode
handleMapClickAnyMode(pg, latlng) == addPolygonMarker(pg, latlng)

\* handlers.js handleMapClick
handleMapClick(pg, latlng) ==
    IF pg.state.currentMapMode = "create-field" THEN addPolygonMarker(pg, latlng)
    ELSE IF pg.state.currentMapMode = "create-plant" THEN setPlantLocation(pg, latlng)
    ELSE pg

\* what a client step leaves alone
clientFrame == <<seasonVars, cycleVars, sowingVars, soilVars, serverVars>>

\* the map is on display
OnMap == ui.screen = "main" /\ ui.view = "map-view"

\* a click on the map
MapClick ==
    /\ OnMap
    /\ Len(ui.polygonPoints) < MaxPoints
    /\ \E latlng \in LatLngs : Becomes(handleMapClick(Page, latlng))
    /\ UNCHANGED clientFrame

\* handlers.js enterAddFieldMode / enterAddPlantMode, from the buttons of the
\* view panel
EnterCreationMode ==
    /\ OnMap
    /\ ~ui.viewControlsHidden
    /\ \E field \in BOOLEAN :
           Becomes([Page EXCEPT
               !.state.currentMapMode = IF field THEN "create-field" ELSE "create-plant",
               !.ui.viewControlsHidden = TRUE,
               !.ui.plantCreationControlsHidden = field,
               !.ui.fieldCreationControlsHidden = ~field])
    /\ UNCHANGED clientFrame

\* the cancel button of the field or of the plant creation panel
CancelCreation ==
    /\ OnMap
    /\ ~ui.fieldCreationControlsHidden \/ ~ui.plantCreationControlsHidden
    /\ callSeq <= MaxCalls
    /\ Becomes(exitCreationMode(Page))
    /\ UNCHANGED clientFrame

\* the clear button of the field creation panel
ClearMap ==
    /\ OnMap
    /\ ~ui.fieldCreationControlsHidden
    /\ Becomes(clearDrawing(Page))
    /\ UNCHANGED clientFrame

\* String.prototype.trim on the names typed here
trim(text) == IF text = " " THEN "" ELSE text

\* the user types into the field name input
TypeFieldName ==
    /\ OnMap
    /\ ~ui.fieldCreationControlsHidden
    /\ \E name \in {"", " ", "North"} : ui' = [ui EXCEPT !.fieldNameInput = name]
    /\ UNCHANGED <<state, pending, callSeq, clientFrame>>

\* handlers.js handleSaveField up to its await
handleSaveField ==
    /\ OnMap
    /\ ~ui.fieldCreationControlsHidden
    /\ ~ui.saveFieldBtnDisabled
    /\ callSeq <= MaxCalls
    /\ LET fieldName == trim(ui.fieldNameInput)
           geometry == getPolygonGeometry(ui.polygonPoints)
       IN  IF fieldName = "" \/ geometry = Null
           THEN Becomes([Page EXCEPT !.ui.mapMessage =
                    "Field name and at least 3 points on the map are required."])
           ELSE Becomes(fetch([Page EXCEPT !.ui.mapMessage = "",
                                           !.ui.saveFieldBtnDisabled = TRUE],
                              "saveField", state.token,
                              << [name |-> fieldName, geometry |-> geometry[1],
                                  area_hectares |-> state.currentMapArea.hectares] >>))
    /\ UNCHANGED clientFrame

\* handlers.js handleDeleteField / handleDeletePlant up to their await, from
\* the popup of a drawn field or plant; ok is the answer to confirm()
handleDelete ==
    /\ OnMap
    /\ callSeq <= MaxCalls
    /\ \E field \in BOOLEAN :
       \E i \in DOMAIN (IF field THEN ui.fieldsLayer ELSE ui.plantsLayer) :
       \E ok \in BOOLEAN :
           Becomes(IF ~ok THEN Page
                   ELSE fetch(Page, IF field THEN "deleteField" ELSE "deletePlant",
                              state.token,
                              << (IF field THEN ui.fieldsLayer ELSE ui.plantsLayer)[i] >>))
    /\ UNCHANGED clientFrame

\* the refresh button of the view panel
RefreshMap ==
    /\ OnMap
    /\ ~ui.viewControlsHidden
    /\ callSeq <= MaxCalls
    /\ Becomes(loadMapData(Page))
    /\ UNCHANGED clientFrame

\* rectangles the draw control can produce: around all the plants of
\* ClientPlants, around two of them, and around the three on one line
SelectionBounds ==
    { [south |-> 0, west |-> 0, north |-> 2, east |-> 2],
      [south |-> 0, west |-> 0, north |-> 0, east |-> 2],
      [south |-> 0, west |-> 0, north |-> 2, east |-> 0] }

\* L.LatLngBounds.contains
contains(bounds, latlng) ==
    /\ bounds.south <= latlng.lat /\ latlng.lat <= bounds.north
    /\ bounds.west <= latlng.lng /\ latlng.lng <= bounds.east

\* handleSelectionDrawn that enables the button for any selection
handleSelectionDrawnAlwaysEnabled(pg, bounds) ==
    [pg EXCEPT !.ui.currentSelectedPlants =
                   SelectSeq(pg.state.plants, LAMBDA plant : contains(bounds, plant.location)),
               !.ui.viewControlsHidden = TRUE,
               !.ui.selectionControlsHidden = FALSE,
               !.ui.createFieldFromSelectionBtnDisabled = FALSE]

\* handlers.js handleSelectionDrawn
handleSelectionDrawn(pg, bounds) ==
    LET selected == SelectSeq(pg.state.plants,
                              LAMBDA plant : contains(bounds, plant.location))
    IN  [pg EXCEPT !.ui.currentSelectedPlants = selected,
                   !.ui.viewControlsHidden = TRUE,
                   !.ui.selectionControlsHidden = FALSE,
                   !.ui.createFieldFromSelectionBtnDisabled = ~(Len(selected) >= 3)]

\* the selection-drawn event of the draw control
SelectionDrawn ==
    /\ OnMap
    /\ \E bounds \in SelectionBounds : Becomes(handleSelectionDrawn(Page, bounds))
    /\ UNCHANGED clientFrame

\* the cancel button of the selection panel, or the selection-cleared event
\* of the draw control while a rectangle is drawn
SelectionCleared ==
    /\ OnMap
    /\ ~ui.selectionControlsHidden
    /\ Becomes(clearSelectionState(Page))
    /\ UNCHANGED clientFrame

\* turf.convex of the plants' places: no hull when they lie on one line
turfConvex(plants) ==
    LET at == { plants[i].location : i \in DOMAIN plants }
    IN  IF \A p \in at, q \in at, r \in at :
               (q.lng - p.lng) * (r.lat - p.lat) = (r.lng - p.lng) * (q.lat - p.lat)
        THEN Null
        ELSE << [type |-> "Polygon", hullOf |-> at] >>

\* handlers.js handleCreateFieldFromSelection up to its await; fieldName is
\* what prompt() returns (null when cancelled)
handleCreateFieldFromSelection ==
    /\ OnMap
    /\ ~ui.selectionControlsHidden
    /\ ~ui.createFieldFromSelectionBtnDisabled
    /\ callSeq <= MaxCalls
    /\ IF Len(ui.currentSelectedPlants) < 3
       THEN Becomes(Page)
       ELSE \E fieldName \in {Null, <<"">>, <<" ">>, <<"North">>} :
                LET hull == turfConvex(ui.currentSelectedPlants)
                IN  IF fieldName = Null \/ trim(fieldName[1]) = "" \/ hull = Null
                    THEN Becomes(Page)
                    ELSE Becomes(fetch(
                             [Page EXCEPT !.ui.createFieldFromSelectionBtnDisabled = TRUE],
                             "saveFieldFromSelection", state.token,
                             << [name |-> trim(fieldName[1]), geometry |-> hull[1],
                                 area_hectares |-> [toFixed |-> 4, of |-> hull[1]]] >>))
    /\ UNCHANGED clientFrame

\* ui.showView from a view of the main app
Views == {"dashboard-view", "cycle-planner-view", "sowing-calculator-view",
          "soil-analysis-view", "map-view", "field-details-view", "plant-details-view"}

\* main.js: goToDashboardBtn click handler
GoToDashboard ==
    /\ ui.screen = "setup"
    /\ app # "script"
    /\ ui' = [ui EXCEPT !.screen = "main", !.view = "dashboard-view"]
    /\ UNCHANGED <<state, pending, callSeq, clientFrame>>

\* main.js: dashboard button click handler; for the map view its timeout
\* callback (the map is set up on the first visit, then exitCreationMode)
DashboardButton ==
    /\ ui.screen = "main"
    /\ ui.view = "dashboard-view"
    /\ app # "script"
    /\ callSeq <= MaxCalls
    /\ \E viewId \in {"cycle-planner-view", "sowing-calculator-view",
                      "soil-analysis-view", "map-view"} :
           IF viewId = "map-view"
           THEN Becomes(exitCreationMode([Page EXCEPT !.ui.view = viewId]))
           ELSE Becomes([Page EXCEPT !.ui.view = viewId])
    /\ UNCHANGED clientFrame

\* a Back handler that returns from the dashboard to the map
BackToMap ==
    /\ ui.screen = "main"
    /\ ui' = [ui EXCEPT !.view = IF ui.view = "dashboard-view" THEN "map-view"
                                 ELSE "dashboard-view"]
    /\ UNCHANGED <<state, pending, callSeq, clientFrame>>

\* main.js and script.js: backToSetupBtn click handler
BackToSetup ==
    /\ ui.screen = "main"
    /\ ui' = IF app = "script"
             THEN IF ui.view # "dashboard-view"
                  THEN [ui EXCEPT !.view = "dashboard-view"]
                  ELSE [ui EXCEPT !.screen = "setup"]
             ELSE IF ui.view = "field-details-view"
                  THEN [ui EXCEPT !.view = "map-view"]
             ELSE IF ui.view \in {"map-view", "cycle-planner-view",
                                  "sowing-calculator-view", "soil-analysis-view"}
                  THEN [ui EXCEPT !.view = "dashboard-view"]
             ELSE IF ui.view = "dashboard-view"
                  THEN [ui EXCEPT !.screen = "setup"]
             ELSE [ui EXCEPT !.view = "dashboard-view"]
    /\ UNCHANGED <<state, pending, callSeq, clientFrame>>

\* handlers.js handleViewFieldDetails / handleViewPlantDetails up to their
\* await, from the popup of a drawn field or plant
ViewDetails ==
    /\ OnMap
    /\ callSeq <= MaxCalls
    /\ \E field \in BOOLEAN :
       \E i \in DOMAIN (IF field THEN ui.fieldsLayer ELSE ui.plantsLayer) :
           Becomes(fetch([Page EXCEPT !.ui.view = IF field THEN "field-details-view"
                                                  ELSE "plant-details-view"],
                         IF field THEN "fetchFieldDetails" ELSE "fetchPlantDetails",
                         state.token,
                         << (IF field THEN ui.fieldsLayer ELSE ui.plantsLayer)[i] >>))
    /\ UNCHANGED clientFrame

\* main.js: the back buttons of the two details views
BackToMapView ==
    /\ ui.screen = "main"
    /\ ui.view \in {"field-details-view", "plant-details-view"}
    /\ ui' = [ui EXCEPT !.view = "map-view"]
    /\ UNCHANGED <<state, pending, callSeq, clientFrame>>

\* auth.js handleLoginSubmit up to its await
handleLoginSubmit ==
    /\ ui.screen = "auth"
    /\ ~ui.loginButtonDisabled
    /\ callSeq <= MaxCalls
    /\ Becomes(fetch([Page EXCEPT !.ui.loginErrorMessage = "",
                                  !.ui.loginButtonDisabled = TRUE],
                     "loginUser", Null, <<>>))
    /\ UNCHANGED clientFrame

\* the user every token of the browser belongs to
ClientUser == 1

\* the statuses the server can answer a call with: /api/login answers 401 to
\* wrong credentials; the protected routes answer 403 to a token that has
\* expired in the meantime; 500 is the catch branch
Statuses(api) == IF api = "loginUser" THEN {200, 401, 500} ELSE {200, 403, 500}

\* the server handles a call in flight: server.js answers it from the tables
\* as they are now, and the response stays in flight until delivered.  The
\* two list requests of loadMapData are answered together.
Serve ==
    \E c \in { x \in pending : x.result = <<>> } :
    \E status \in Statuses(c.api) :
    \E token \in Tokens :
        LET Answer(st, data) ==
                pending' = (pending \ {c})
                           \cup { [c EXCEPT !.result = <<[status |-> st, data |-> data,
                                                              read |-> FALSE]>>] }
            rows == IF c.api = "deletePlant" THEN ByIdOfUser(dbPlants, c.arg[1], ClientUser)
                    ELSE ByIdOfUser(dbFields, c.arg[1], ClientUser)
        IN  /\ IF status # 200
               THEN Answer(status, <<>>) /\ UNCHANGED <<dbFields, dbPlants, dbSeq>>
               ELSE CASE c.api = "loginUser" ->
                         Answer(200, <<token>>) /\ UNCHANGED <<dbFields, dbPlants, dbSeq>>
                      [] c.api = "loadMapData" ->
                         /\ Answer(200, << [fields |-> OrderByCreatedAt(
                                                OfUser(dbFields, ClientUser), TRUE),
                                            plants |-> OrderByCreatedAt(
                                                OfUser(dbPlants, ClientUser), TRUE)] >>)
                         /\ UNCHANGED <<dbFields, dbPlants, dbSeq>>
                      [] c.api \in {"deleteField", "deletePlant"} ->
                         /\ Answer(IF rows = {} THEN 404 ELSE 200, <<>>)
                         /\ dbFields' = IF c.api = "deleteField" THEN dbFields \ rows
                                        ELSE dbFields
                         /\ dbPlants' = IF c.api = "deletePlant" THEN dbPlants \ rows
                                        ELSE dbPlants
                         /\ UNCHANGED dbSeq
                      [] c.api \in {"saveField", "saveFieldFromSelection"} ->
                         IF c.api = "saveField" /\ c.arg[1].area_hectares = 0
                         THEN Answer(400, <<>>) /\ UNCHANGED <<dbFields, dbPlants, dbSeq>>
                         ELSE /\ Answer(201, <<>>)
                              /\ dbFields' = dbFields \cup
                                     { [id |-> dbSeq.fields, user_id |-> ClientUser,
                                        name |-> c.arg[1].name] }
                              /\ dbSeq' = [dbSeq EXCEPT !.fields = @ + 1]
                              /\ UNCHANGED dbPlants
                      [] OTHER ->
                         Answer(200, <<>>) /\ UNCHANGED <<dbFields, dbPlants, dbSeq>>
            /\ (c.api # "loginUser" \/ status # 200) => token = "jwt"
            /\ UNCHANGED <<state, ui, callSeq, response, seasonVars, cycleVars,
                           sowingVars, soilVars>>

\* the ids of rows, as the layers of the map hold them
Ids(rows) == [i \in DOMAIN rows |-> rows[i].id]

\* handleLoginSubmit after its await, without the finally clause
handleLoginSubmitNoFinally(pg, ok, data) ==
    IF ok THEN onLoginSuccess([pg EXCEPT !.ui.localStorage = data], data[1])
    ELSE [pg EXCEPT !.ui.loginErrorMessage = "Invalid email or password."]

\* auth.js handleLoginSubmit after its await: saveToken and onLoginSuccess,
\* or the catch branch; then finally
handleLoginSubmitDone(pg, ok, data) ==
    [ (IF ok THEN onLoginSuccess([pg EXCEPT !.ui.localStorage = data], data[1])
       ELSE [pg EXCEPT !.ui.loginErrorMessage = "Invalid email or password."])
      EXCEPT !.ui.loginButtonDisabled = FALSE ]

\* the rest of a handler after its await: ok is response.ok
Settle(pg, c) ==
    LET ok == c.result[1].status \in {200, 201}
        data == c.result[1].data
    IN  CASE c.api = "loginUser" ->
             handleLoginSubmitDone(pg, ok, data)
          [] c.api = "fetchVarieties" ->
             IF ok THEN [pg EXCEPT !.state.varieties = apiVarieties] ELSE pg
          [] c.api = "loadMapData" ->
             \* clearAllDataLayers, then drawFields and drawPlants (which in the
             \* first docs copy clear their layer themselves)
             IF ok THEN [pg EXCEPT !.state.fields = data[1].fields,
                                   !.state.plants = data[1].plants,
                                   !.ui.fieldsLayer = Ids(data[1].fields),
                                   !.ui.plantsLayer = Ids(data[1].plants),
                                   !.ui.reloadDrawn = c.n]
             ELSE pg
          [] c.api \in {"deleteField", "deletePlant"} ->
             IF ok THEN loadMapData(pg) ELSE pg
          [] c.api = "saveField" ->
             IF ok THEN exitCreationMode(pg)
             ELSE [pg EXCEPT !.ui.mapMessage = "Error saving",
                             !.ui.saveFieldBtnDisabled = FALSE]
          [] c.api = "saveFieldFromSelection" ->
             [ (IF ok THEN loadMapData(clearSelectionState(pg)) ELSE pg)
               EXCEPT !.ui.createFieldFromSelectionBtnDisabled = FALSE ]
          [] OTHER -> pg

\* a response arrives: api.js handleResponse up to its await of
\* response.json(), the auth-error listener included
Deliver ==
    \E c \in { x \in pending : x.result # <<>> /\ ~x.result[1].read } :
        /\ Becomes(handleResponse(
               [Page EXCEPT !.pending = (@ \ {c}) \cup { [c EXCEPT !.result[1].read = TRUE] }],
               c.result[1].status))
        /\ UNCHANGED clientFrame

\* the body is read: handleResponse returns or throws, and the handler that
\* awaited the call goes on
Resume ==
    \E c \in { x \in pending : x.result # <<>> /\ x.result[1].read } :
        /\ Becomes(Settle([Page EXCEPT !.pending = @ \ {c}], c))
        /\ UNCHANGED clientFrame

\* the page is as pg
Loaded(pg) ==
    /\ state = pg.state
    /\ ui = pg.ui
    /\ pending = pg.pending
    /\ callSeq = pg.callSeq

\* rows of the user in the tables: two fields, and four plants of which
\* three stand on one line
ClientFields == << [id |-> 2, user_id |-> ClientUser, name |-> "South"],
                   [id |-> 1, user_id |-> ClientUser, name |-> "North"] >>

ClientPlants ==
    << [id |-> 4, user_id |-> ClientUser, location |-> [lat |-> 0, lng |-> 2]],
       [id |-> 3, user_id |-> ClientUser, location |-> [lat |-> 2, lng |-> 0]],
       [id |-> 2, user_id |-> ClientUser, location |-> [lat |-> 1, lng |-> 0]],
       [id |-> 1, user_id |-> ClientUser, location |-> [lat |-> 0, lng |-> 0]] >>

\* the tables hold the rows of ClientFields and ClientPlants
ServerLoaded ==
    /\ dbFields = { ClientFields[i] : i \in DOMAIN ClientFields }
    /\ dbPlants = { ClientPlants[i] : i \in DOMAIN ClientPlants }
    /\ dbSeq = [fields |-> Len(ClientFields) + 1, plants |-> Len(ClientPlants) + 1]
    /\ response = <<>>

\* the calculators of the docs page untouched
CalculatorsIdle ==
    /\ timeZone = [off |-> 0, dst |-> FALSE]
    /\ dateInput = <<>>
    /\ varietySelect = ""
    /\ currentRegion = ""
    /\ resultElement = EmptyContent
    /\ resultsHidden = TRUE
    /\ alertMessage = ""
    /\ SeasonIdle
    /\ SowingIdle
    /\ SoilIdle

\* main.js initializeApp: with a stored token onLoginSuccess runs, without
\* one the authentication screen is shown
initializeApp(stored) ==
    LET page == [state |-> [LoadedState("docs") EXCEPT !.token = Null, !.varieties = <<>>],
                 ui |-> [UiIdle EXCEPT !.localStorage = stored],
                 pending |-> {},
                 callSeq |-> 1]
    IN  IF stored # Null THEN onLoginSuccess(page, stored[1]) ELSE page

InitSession ==
    /\ app = "docs"
    /\ \E stored \in {Null, <<"jwt">>} : Loaded(initializeApp(stored))
    /\ ServerLoaded
    /\ CalculatorsIdle

NextSession ==
    \/ handleLoginSubmit
    \/ GoToDashboard
    \/ DashboardButton
    \/ RefreshMap
    \/ handleDelete
    \/ Serve
    \/ Deliver
    \/ Resume

SpecSession == InitSession /\ [][NextSession]_vars

\* the map view once the user is logged in and the first reload has been
\* drawn (the calls made until then are over, and one more call of the user
\* is within MaxCalls); the map module is that of docs/js or that of
\* frontend/js
MapLoaded ==
    [state |-> [LoadedState("docs") EXCEPT !.fields = ClientFields,
                                            !.plants = ClientPlants],
     ui |-> [UiIdle EXCEPT !.localStorage = <<"jwt">>, !.screen = "main",
                           !.view = "map-view",
                           !.fieldsLayer = Ids(ClientFields),
                           !.plantsLayer = Ids(ClientPlants)],
     pending |-> {},
     callSeq |-> MaxCalls]

InitMap ==
    /\ app \in {"docs", "frontend"}
    /\ Loaded(MapLoaded)
    /\ ServerLoaded
    /\ CalculatorsIdle

\* clicking on the map in its three modes
NextClicks ==
    \/ MapClick
    \/ EnterCreationMode
    \/ CancelCreation
    \/ ClearMap
    \/ SelectionDrawn
    \/ SelectionCleared
    \/ Serve
    \/ Deliver
    \/ Resume

SpecClicks == InitMap /\ [][NextClicks]_vars

\* drawing a field and saving it
NextSaveField ==
    \/ MapClick
    \/ EnterCreationMode
    \/ ClearMap
    \/ TypeFieldName
    \/ handleSaveField
    \/ Serve
    \/ Deliver
    \/ Resume

SpecSaveField == InitMap /\ [][NextSaveField]_vars

\* selecting plants, the panels of the map and the way in and out of it
NextSelection ==
    \/ SelectionDrawn
    \/ SelectionCleared
    \/ handleCreateFieldFromSelection
    \/ EnterCreationMode
    \/ CancelCreation
    \/ BackToSetup
    \/ DashboardButton
    \/ Serve
    \/ Deliver
    \/ Resume

SpecSelection == InitMap /\ [][NextSelection]_vars

\* reloading the map: the refresh button and the delete buttons of the
\* popups, with two more calls of the user within MaxCalls
InitReload ==
    /\ app \in {"docs", "frontend"}
    /\ Loaded([MapLoaded EXCEPT !.callSeq = MaxCalls - 1])
    /\ ServerLoaded
    /\ CalculatorsIdle

NextReload ==
    \/ RefreshMap
    \/ handleDelete
    \/ Serve
    \/ Deliver
    \/ Resume

SpecReload == InitReload /\ [][NextReload]_vars

\* the drawings of up to MaxPoints points
Drawings == UNION { [1..n -> LatLngs] : n \in 0..MaxPoints }

\* the main screen as Back can find it: any view, the map left in any mode
\* with its panel, a drawing or a placed plant, a selection drawn or not;
\* script.js has the dashboard and the three calculators only
InitBack ==
    /\ app \in {"script", "docs"}
    /\ \E view \in Views, mode \in {"view", "create-field", "create-plant"},
          points \in Drawings, place \in {Null} \cup { <<l>> : l \in LatLngs },
          selection \in BOOLEAN :
          /\ points # <<>> => mode = "create-field"
          /\ place # Null => mode = "create-plant"
          /\ app = "script" =>
                /\ view \notin {"map-view", "field-details-view", "plant-details-view"}
                /\ mode = "view" /\ ~selection
          /\ Loaded([MapLoaded EXCEPT
                 !.state = IF app = "script" THEN LoadedState("script")
                           ELSE [@ EXCEPT !.currentMapMode = mode,
                                          !.currentPlantLocation = place,
                                          !.currentMapArea =
                                              IF Len(points) >= 3
                                              THEN turfArea(getPolygonGeometry(points)[1])
                                              ELSE NoArea],
                 !.ui = [@ EXCEPT !.localStorage = IF app = "script" THEN Null ELSE @,
                                  !.view = view,
                                  !.polygonPoints = points,
                                  !.tempPlantMarker = place,
                                  !.plantFormDisabled = (place = Null),
                                  !.viewControlsHidden = (mode # "view" \/ selection),
                                  !.fieldCreationControlsHidden = (mode # "create-field"),
                                  !.plantCreationControlsHidden = (mode # "create-plant"),
                                  !.selectionControlsHidden = ~selection]])
    /\ ServerLoaded
    /\ CalculatorsIdle

\* the user keeps pressing Back
SpecBack == InitBack /\ [][BackToSetup]_vars /\ WF_vars(BackToSetup)

(***************************************************************************)
(* Classifier harness: the arguments are drawn, the functions are applied  *)
(***************************************************************************)
InitSeason ==
    /\ seasonArgs \in [month : Months, day : TestDays,
                       region : ZoningCalendars \cup SyntheticCalendars \cup {NoRegion}]
    /\ insideRet = <<>>
    /\ seasonRet = "none"
    /\ seasonRetScript = "none"
    /\ CycleIdle
    /\ SowingIdle
    /\ SoilIdle
    /\ PageLoaded
    /\ ServerIdle
    /\ ClientIdle

CallIsBetween ==
    /\ insideRet = <<>>
    /\ seasonArgs.region # NoRegion
    /\ insideRet' = <<isBetween(seasonArgs.month, seasonArgs.day,
                                SplitMapNumber(seasonArgs.region.tolerated_start),
                                SplitMapNumber(seasonArgs.region.tolerated_end))>>
    /\ UNCHANGED <<pageVars, serverVars, seasonArgs, seasonRet, seasonRetScript, cycleVars, sowingVars, soilVars>>

CallGetPlantingSeason ==
    /\ seasonRet = "none"
    /\ seasonRet' = getPlantingSeason(seasonArgs.month, seasonArgs.day, seasonArgs.region)
    /\ UNCHANGED <<pageVars, serverVars, seasonArgs, insideRet, seasonRetScript, cycleVars, sowingVars, soilVars>>

CallGetPlantingSeasonScript ==
    /\ seasonRetScript = "none"
    /\ seasonRetScript' = getPlantingSeason_script(seasonArgs.month, seasonArgs.day,
                                                   seasonArgs.region)
    /\ UNCHANGED <<pageVars, serverVars, seasonArgs, insideRet, seasonRet, cycleVars, sowingVars, soilVars>>

NextSeason == CallIsBetween \/ CallGetPlantingSeason \/ CallGetPlantingSeasonScript

SpecSeason == InitSeason /\ [][NextSeason]_vars

(***************************************************************************)
(* Properties of the classifier                                            *)
(***************************************************************************)
\* the month*100+day encoding of each 'MM-DD' string, written out by hand
EncOf(s) ==
    CASE s = s0101 -> 101   [] s = s0115 -> 115   [] s = s0120 -> 120
      [] s = s0131 -> 131   [] s = s0210 -> 210   [] s = s0215 -> 215
      [] s = s0220 -> 220   [] s = s0228 -> 228   [] s = s0601 -> 601
      [] s = s1201 -> 1201  [] s = s1215 -> 1215  [] s = s1231 -> 1231

\* a date is outside a window iff it lies in the complementary gap
InWindow(d, s, e) ==
    IF s <= e THEN ~(d < s \/ d > e) ELSE ~(e < d /\ d < s)

ArgDate == seasonArgs.month * 100 + seasonArgs.day
ArgInPref ==
    InWindow(ArgDate, EncOf(seasonArgs.region.preferential_start),
                      EncOf(seasonArgs.region.preferential_end))
ArgInTol ==
    InWindow(ArgDate, EncOf(seasonArgs.region.tolerated_start),
                      EncOf(seasonArgs.region.tolerated_end))

\* C1: isBetween answers start <= date <= end for a window that does not
\* wrap and date >= start OR date <= end for one that wraps the year end; with
\* the tolerated window 12-15..01-31 and a preferential window that does not
\* match, 12-20 and 01-10 are Tolerated and 06-01 is NotRecommended.
C1_WindowMembership ==
    /\ insideRet # <<>> =>
         LET d == ArgDate
             s == EncOf(seasonArgs.region.tolerated_start)
             e == EncOf(seasonArgs.region.tolerated_end)
         IN  /\ s <= e => (insideRet[1] <=> (s <= d /\ d <= e))
             /\ s > e  => (insideRet[1] <=> (d >= s \/ d <= e))
    /\ ( /\ seasonRet # "none"
         /\ seasonArgs.region # NoRegion
         /\ seasonArgs.region.tolerated_start = s1215
         /\ seasonArgs.region.tolerated_end = s0131
         /\ ~ArgInPref )
       => /\ ArgDate \in {1220, 110} => seasonRet = "Tolerated"
          /\ ArgDate = 601 => seasonRet = "NotRecommended"

C1_Witness ==
    /\ insideRet = <<TRUE>>
    /\ seasonRet = "Tolerated"
    /\ ArgDate = 110
    /\ seasonArgs.region.tolerated_start = s1215
    /\ seasonArgs.region.tolerated_end = s0131

SeasonOrder(ret) ==
    /\ ret \in {"Preferential", "Tolerated", "NotRecommended"}
    /\ ret = "Preferential" <=> ArgInPref
    /\ ret = "Tolerated" <=> (~ArgInPref /\ ArgInTol)
    /\ ret = "NotRecommended" <=> (~ArgInPref /\ ~ArgInTol)

\* C2: for every date and region calendar getPlantingSeason returns exactly
\* one of the three categories: Preferential whenever the date is inside the
\* preferential window, Tolerated iff outside it and inside the tolerated
\* window, NotRecommended iff inside neither.
C2_ClassificationOrder ==
    seasonArgs.region # NoRegion =>
        /\ seasonRet # "none" => SeasonOrder(seasonRet)
        /\ seasonRetScript # "none" => SeasonOrder(seasonRetScript)

C2_Witness ==
    /\ seasonArgs.region # NoRegion
    /\ ArgInPref /\ ArgInTol
    /\ seasonRet = "Preferential"
    /\ seasonRetScript = "Preferential"

(***************************************************************************)
(* Properties of the cycle planner                                         *)
(***************************************************************************)
\* days from the civil date by the closed formula (era arithmetic), used
\* to count calendar days between two displayed dates
CivilDays(ymd) ==
    LET yy  == IF ymd.m <= 2 THEN ymd.y - 1 ELSE ymd.y
        era == yy \div 400
        yoe == yy - era * 400
        mp  == IF ymd.m > 2 THEN ymd.m - 3 ELSE ymd.m + 9
        doy == (153 * mp + 2) \div 5 + ymd.d - 1
        doe == yoe * 365 + yoe \div 4 - yoe \div 100 + doy
    IN  era * 146097 + doe

DaysBetween(a, b) == CivilDays(b) - CivilDays(a)

Shown == resultElement.kind = "result"
Entered == dateInput[1]
SelectedStages == VarietiesOf(app)[varietySelect].stages

RECURSIVE PrefixDays(_, _)
PrefixDays(stages, i) == IF i = 0 THEN 0 ELSE PrefixDays(stages, i - 1) + stages[i].days

\* C3: the number of calendar days between the entered start date and the
\* reported harvest date equals the reported totalCycleDays, which is the sum
\* of all stage durations.
C3_TimelineAdditivity ==
    Shown =>
        /\ resultElement.totalCycleDays = PrefixDays(SelectedStages, Len(SelectedStages))
        /\ DaysBetween(Entered, resultElement.harvestDate) = resultElement.totalCycleDays

\* C4: the timeline lists the stages in stored order, the first stage starts
\* on the start date, every stage ends durationDays calendar days after its
\* own start and every later stage starts on the previous stage's end.
C4_TimelineContiguity ==
    Shown =>
        LET tl == resultElement.timeline
        IN  /\ Len(tl) = Len(SelectedStages)
            /\ \A i \in 1..Len(tl) :
                 /\ tl[i].stageName = SelectedStages[i].name
                 /\ tl[i].days = SelectedStages[i].days
                 /\ DaysBetween(tl[i].start, tl[i].end) = tl[i].days
                 /\ i = 1 => tl[i].start = Entered
                 /\ i > 1 => tl[i].start = tl[i - 1].end

\* the category of the entered month and day
EnteredSeason ==
    LET r == zoningData[currentRegion]
        d == Entered.m * 100 + Entered.d
    IN  IF InWindow(d, EncOf(r.preferential_start), EncOf(r.preferential_end))
        THEN "Preferential"
        ELSE IF InWindow(d, EncOf(r.tolerated_start), EncOf(r.tolerated_end))
        THEN "Tolerated"
        ELSE "NotRecommended"

\* C5: in every time zone the planting window is classified on the month and
\* day the user entered, and every stage date and the harvest date shown is
\* the entered date plus a whole number of days (no one-day shift).
C5_TimezoneNaiveDates ==
    (Shown /\ currentRegion \in DOMAIN zoningData) =>
        LET tl == resultElement.timeline
        IN  /\ resultElement.season = EnteredSeason
            /\ \A i \in 1..Len(tl) :
                 /\ DaysBetween(Entered, tl[i].start) = PrefixDays(SelectedStages, i - 1)
                 /\ DaysBetween(Entered, tl[i].end) = PrefixDays(SelectedStages, i)
            /\ DaysBetween(Entered, resultElement.harvestDate)
                 = PrefixDays(SelectedStages, Len(SelectedStages))

BehindUtc == timeZone.off + (IF timeZone.dst THEN 1 ELSE 0) <= 0

SeedsShown == sowingResultText.kind = "seeds"
AreaValue == sowingAreaInput[1]
GerminationValue == germinationRateInput[1]
SowingPopulation ==
    IF app = "script" THEN <<cottonVarieties[sowingVarietySelect].population>>
    ELSE apiVarieties[sowingVarietySelect].target_population

\* the condition factor in hundredths
FactorPercent ==
    CASE fieldConditionsSelect = "good" -> 100
      [] fieldConditionsSelect = "average" -> 105
      [] fieldConditionsSelect = "poor" -> 110

AcceptedSowingInput ==
    /\ sowingAreaInput # <<>> /\ AreaValue > 0
    /\ germinationRateInput # <<>> /\ GerminationValue > 0 /\ GerminationValue <= 100
    /\ sowingVarietySelect # "" /\ SowingPopulation # Null

\* C7: for every accepted input the seed count is
\* ceil(area * population * (100 / germination) * factor): an integer n with
\* raw <= n < raw + 1, where raw = area * population * factor% / germination;
\* area 10, population 110000, germination 90, average gives 1283334.
C7_SeedCount ==
    (SeedsShown /\ AcceptedSowingInput) =>
        LET n == sowingResultText.seeds
            rawTimesGermination == AreaValue * SowingPopulation[1] * FactorPercent
        IN  /\ n * GerminationValue >= rawTimesGermination
            /\ (n - 1) * GerminationValue < rawTimesGermination
            /\ ( AreaValue = 10 /\ SowingPopulation = <<110000>> /\ GerminationValue = 90
                 /\ fieldConditionsSelect = "average" ) => n = 1283334

SowingHandled == sowingResultText # EmptyContent \/ alertMessage # ""

\* C8: the sowing calculation fails with an error and shows no seed count
\* whenever area <= 0, germination <= 0, germination > 100 or the target
\* population is missing; a seed count is shown only for accepted input.
C8_SowingValidation ==
    /\ SeedsShown => AcceptedSowingInput
    /\ (SowingHandled /\ ~AcceptedSowingInput) =>
          (sowingResultText.kind = "error" \/ alertMessage # "")

(***************************************************************************)
(* Properties of the soil analysis                                         *)
(***************************************************************************)
ReportShown == soilResultList.kind = "report"

SelectedIdeal ==
    IF app = "script" THEN cottonVarieties[soilVarietySelect].soil
    ELSE apiVarieties[soilVarietySelect].ideal_soil_conditions

\* position of each nutrient's line in the report
LineOf(k) ==
    CASE k = "ph" -> 1 [] k = "v" -> 2  [] k = "al" -> 3 [] k = "p" -> 4
      [] k = "k" -> 5  [] k = "ca" -> 6 [] k = "mg" -> 7 [] k = "s" -> 8
      [] k = "b" -> 9  [] k = "zn" -> 10 [] k = "n" -> 11

\* the ideal-table entry of each measured nutrient
IdealOf(k) ==
    CASE k = "ph" -> SelectedIdeal.ph       [] k = "v" -> SelectedIdeal.v_percent
      [] k = "al" -> SelectedIdeal.al_cmolc [] k = "p" -> SelectedIdeal.p_ppm
      [] k = "k" -> SelectedIdeal.k_ppm     [] k = "ca" -> SelectedIdeal.ca_cmolc
      [] k = "mg" -> SelectedIdeal.mg_cmolc [] k = "s" -> SelectedIdeal.s_ppm
      [] k = "b" -> SelectedIdeal.b_ppm     [] k = "zn" -> SelectedIdeal.zn_ppm
      [] k = "n" -> SelectedIdeal.n_ppm

StatusOf(k) == soilResultList.lines[LineOf(k)].status
Measured(k) == soilInputs[k][1]

\* C9: for a range with min and max (pH) the status is low iff value < min,
\* high iff value > max and ok iff min <= value <= max; min and max are ok.
C9_TwoSidedRange ==
    ReportShown =>
        LET mn == IdealOf("ph").min[1]
            mx == IdealOf("ph").max[1]
            v  == Measured("ph")
        IN  /\ StatusOf("ph") = "low" <=> v < mn
            /\ StatusOf("ph") = "high" <=> v > mx
            /\ StatusOf("ph") = "ok" <=> (mn <= v /\ v <= mx)

C9_Witness ==
    /\ ReportShown
    /\ soilVarietySelect = "tmg 84 b3xf"
    /\ Measured("ph") = 650
    /\ StatusOf("ph") = "ok"

FloorOnlyKeys == {"v", "p", "k", "ca", "mg", "s", "b", "zn", "n"}

\* C10: for a range with only a min that is not reversed (phosphorus) the
\* status is low iff value < min and ok otherwise, never high.
C10_FloorOnlyRange ==
    ReportShown =>
        \A k \in FloorOnlyKeys :
            /\ StatusOf(k) = "low" <=> Measured(k) < IdealOf(k).min[1]
            /\ StatusOf(k) = "ok" <=> Measured(k) >= IdealOf(k).min[1]
            /\ StatusOf(k) # "high"

C10_Witness ==
    /\ ReportShown
    /\ Measured("p") = 90000
    /\ StatusOf("p") = "ok"
    /\ StatusOf("k") = "low"

SoilHandled == soilResultList # EmptyContent \/ alertMessage # ""

\* C12: if any one of the eleven nutrient inputs is absent or not a number
\* the analysis fails and no report line is produced; a report is produced
\* only when all eleven are numeric, and then it has a line for every one of
\* them, carrying the measured value.
C12_AllOrNothing ==
    /\ (\E k \in NutrientKeys : soilInputs[k] = <<>>) =>
           /\ ~ReportShown
           /\ SoilHandled => (soilResultList.kind = "error" \/ alertMessage # "")
    /\ ReportShown =>
           /\ \A k \in NutrientKeys : soilInputs[k] # <<>>
           /\ Len(soilResultList.lines) = Cardinality(NutrientKeys)
           /\ \A k \in NutrientKeys : soilResultList.lines[LineOf(k)].value = Measured(k)

C12_Witness ==
    /\ soilInputs.n = <<>>
    /\ \A k \in NutrientKeys \ {"n"} : soilInputs[k] # <<>>
    /\ soilVarietySelect = "brs 433"
    /\ soilResultList.kind = "error"

\* the canonical order of the report
CanonicalLabels ==
    << "pH (CaCl2)", "Base Saturation (V%)", "Aluminum (Al3+)", "Phosphorus (P)",
       "Potassium (K)", "Calcium (Ca)", "Magnesium (Mg)", "Sulfur (S)", "Boron (B)",
       "Zinc (Zn)", "Nitrogen (N)" >>

\* C13: every successful soil report has exactly eleven lines in the order
\* pH, base saturation, aluminum, phosphorus, potassium, calcium, magnesium,
\* sulfur, boron, zinc, nitrogen, whatever the measured values; the ideal
\* text is 'min - max' for the two-sided range, '> min' for a floor-only
\* range and '< min' for the reversed range.
C13_ReportOrderAndShape ==
    ReportShown =>
        LET lines == soilResultList.lines
        IN  /\ Len(lines) = 11
            /\ \A i \in 1..11 : lines[i].label = CanonicalLabels[i]
            /\ lines[LineOf("ph")].idealText =
                  [shape |-> "range", min |-> IdealOf("ph").min[1],
                   max |-> IdealOf("ph").max[1]]
            /\ lines[LineOf("al")].idealText =
                  [shape |-> "below", min |-> IdealOf("al").max[1]]
            /\ \A k \in FloorOnlyKeys :
                  lines[LineOf(k)].idealText =
                      [shape |-> "above", min |-> IdealOf(k).min[1]]

C13_Witness ==
    /\ ReportShown
    /\ soilVarietySelect = "brs 433"
    /\ soilResultList.lines[3].label = "Aluminum (Al3+)"
    /\ soilResultList.lines[3].idealText = [shape |-> "below", min |-> 30]
    /\ soilResultList.lines[1].idealText = [shape |-> "range", min |-> 580, max |-> 650]
    /\ soilResultList.lines[11].idealText = [shape |-> "above", min |-> 12000]

(***************************************************************************)
(* Error handling of the cycle planner                                     *)
(***************************************************************************)
CycleHandled == resultElement # EmptyContent \/ alertMessage # "" \/ ~resultsHidden

\* C14: when the selected variety has no growth stages the cycle
\* calculation fails with an error and shows no timeline or harvest date; it
\* never reports a zero-day cycle whose harvest date is the start date.
C14_EmptyVariety ==
    (varietySelect # "" /\ SelectedStages = <<>>) =>
        /\ ~Shown
        /\ CycleHandled => (resultElement.kind = "error" \/ alertMessage # "")

\* the entered text is a calendar date with a four-digit year
EnteredIsDate ==
    /\ Entered.y \in 1000..9999
    /\ Entered.m \in 1..12
    /\ Entered.d \in 1..31

\* C15: when the planting-date input does not parse to a valid date the
\* cycle calculation fails with an error and shows no classification,
\* timeline or harvest date.
C15_InvalidDate ==
    (dateInput # <<>> /\ ~EnteredIsDate) =>
        /\ ~Shown
        /\ CycleHandled => (resultElement.kind = "error" \/ alertMessage # "")

(***************************************************************************)
(* Error handling of the classifier                                        *)
(***************************************************************************)
\* what a caller can tell apart from a category: a thrown exception
ErrorSignals == {"MissingRegionError", "TypeError"}

\* C16: when the region calendar is absent, classification signals an
\* error to the caller instead of returning a value in the category's place.
C16_MissingRegion ==
    seasonArgs.region = NoRegion =>
        /\ seasonRet \in {"none"} \cup ErrorSignals
        /\ seasonRetScript \in {"none"} \cup ErrorSignals

(***************************************************************************)
(* The category is informational only                                      *)
(***************************************************************************)
\* C17: for the same variety and the same start date, calculations made
\* with different region calendars show identical stage start and end
\* dates, harvest date and total cycle days; only the badge may differ.
C17_CategoryInformationalOnly ==
    [][ ( /\ resultElement.kind = "result"
          /\ resultElement'.kind = "result"
          /\ resultElement'.name = resultElement.name )
        => /\ resultElement'.timeline = resultElement.timeline
           /\ resultElement'.harvestDate = resultElement.harvestDate
           /\ resultElement'.totalCycleDays = resultElement.totalCycleDays ]_vars

\* a result computed for mt-south (Preferential on 1 January) still on
\* display after the region was changed to ba-rainfed, where 1 January is
\* only tolerated
C17_Witness ==
    /\ Shown
    /\ timeZone = [off |-> -3, dst |-> FALSE]
    /\ Entered = [y |-> 2025, m |-> 1, d |-> 1]
    /\ resultElement.season = "Preferential"
    /\ currentRegion = "ba-rainfed"
    /\ varietySelect # ""
    /\ resultElement.name = VarietiesOf(app)[varietySelect].name

(***************************************************************************)
(* Purity of the calculators                                               *)
(***************************************************************************)
\* C18: running the cycle, sowing or soil calculation any number of times,
\* in any order, on valid or invalid inputs leaves the variety table, the
\* zoning table and the rest of the application state (token, fields,
\* plants, map mode, drawn area) unchanged, and a calculation made again on
\* the same inputs, whatever was calculated in between, gives the result it
\* gave before.
C18_CalculatorPurity ==
    [][ /\ state' = state
        /\ state'.varieties = VarietiesOf(app)
        /\ state'.zoningData = zoningData
        /\ resultElement # EmptyContent =>
               (resultElement' = resultElement /\ resultsHidden' = resultsHidden)
        /\ sowingResultText # EmptyContent =>
               (sowingResultText' = sowingResultText
                /\ sowingResultsHidden' = sowingResultsHidden)
        /\ soilResultList # EmptyContent =>
               (soilResultList' = soilResultList /\ soilResultsHidden' = soilResultsHidden)
      ]_vars

C18_Witness ==
    /\ resultElement.kind = "result"
    /\ sowingResultText.kind = "seeds"
    /\ soilResultList.kind = "report"
    /\ state.currentMapMode = "create-field"
    /\ state.fields = <<SampleField>>
    /\ state.token = <<"jwt">>

(***************************************************************************)
(* Backend authentication gate                                             *)
(***************************************************************************)
\* a token that jsonwebtoken accepts: signed with the secret and not expired
TokenVerifies(token) == token.signed /\ ~token.expired

\* the request carries a token that verifies
CarriesVerifiedToken(req) ==
    Len(req.authorization) = 2 /\ TokenVerifies(req.authorization[2])

Responded == DOMAIN response # {}

\* C19: on every protected route a request with no token is answered 401
\* and one whose token does not verify 403, in both cases without a query
\* and with the tables as they were; the handler answers, a query is made
\* or a table changes only for a request whose token verifies.
C19_AuthenticationGate ==
    [][ LET r == response'
            h == r.request.authorization
            untouched == r.queries = 0 /\ UNCHANGED <<dbFields, dbPlants, dbSeq>>
        IN  /\ Len(h) < 2 => (r.status = 401 /\ untouched)
            /\ (Len(h) = 2 /\ ~TokenVerifies(h[2])) => (r.status = 403 /\ untouched)
            /\ (r.status \notin {401, 403} \/ ~untouched)
                   => CarriesVerifiedToken(r.request)
      ]_vars

\* rows are stored, and a DELETE under an expired token has just been
\* answered 403
C19_Witness ==
    /\ Responded
    /\ response.request.method = "DELETE"
    /\ response.request.authorization = <<"Bearer", Jwt(1, TRUE, TRUE)>>
    /\ response.status = 403
    /\ \E f \in dbFields : f.id = response.request.id[1] /\ f.user_id = 1
    /\ dbPlants # {}

(***************************************************************************)
(* Per-user isolation                                                      *)
(***************************************************************************)
\* the table a path reads or writes
TableOf(path, fields, plants) ==
    IF path \in {"/api/fields", "/api/fields/:id"} THEN fields ELSE plants

\* C20: a row enters a table only by a POST, with the requester as its
\* owner, and leaves it only by its owner's DELETE; a list or detail
\* response holds only stored rows owned by the requester; and a detail or
\* delete request for an id under which the requester owns no row is
\* answered 404 (when the query is answered at all) with both tables as
\* they were.
C20_PerUserIsolation ==
    [][ LET r == response'
            req == r.request
            u == req.authorization[2].userId
            before == TableOf(req.path, dbFields, dbPlants)
        IN  r.status \notin {401, 403} =>
            /\ \A row \in (dbFields' \ dbFields) \cup (dbPlants' \ dbPlants) :
                   req.method = "POST" /\ row.user_id = u
            /\ \A row \in (dbFields \ dbFields') \cup (dbPlants \ dbPlants') :
                   req.method = "DELETE" /\ row.user_id = u /\ req.id = <<row.id>>
            /\ (req.method = "GET" /\ r.body.kind = "rows" /\ req.path # "/api/varieties")
                   => \A i \in DOMAIN r.body.rows :
                          r.body.rows[i] \in before /\ r.body.rows[i].user_id = u
            /\ (req.method = "GET" /\ r.body.kind = "row")
                   => (r.body.row \in before /\ r.body.row.user_id = u)
            /\ r.body.kind = "field"
                   => /\ r.body.row \in dbFields /\ r.body.row.user_id = u
                      /\ \A i \in DOMAIN r.body.plants :
                             /\ r.body.plants[i] \in dbPlants
                             /\ r.body.plants[i].user_id = u
            /\ ( /\ req.id # <<>>
                 /\ r.status # 500
                 /\ ~\E row \in before : row.id = req.id[1] /\ row.user_id = u )
                   => /\ r.status = 404
                      /\ UNCHANGED <<dbFields, dbPlants>>
      ]_vars

\* user 2 asked to delete a field of user 1 that holds a plant of user 2,
\* was answered 404, and the field is still stored
C20_Witness ==
    /\ Responded
    /\ response.request.method = "DELETE"
    /\ response.request.path = "/api/fields/:id"
    /\ response.request.authorization = <<"Bearer", Jwt(2, TRUE, FALSE)>>
    /\ response.status = 404
    /\ \E f \in dbFields : f.id = response.request.id[1] /\ f.user_id = 1
    /\ \E p \in dbPlants : p.user_id = 2 /\ p.field_id = <<1>>

(***************************************************************************)
(* Session: expiry, logout and login                                       *)
(***************************************************************************)
\* the response of call c is handed to handleResponse in this step
Delivered(c) ==
    /\ c \in pending
    /\ c.result # <<>>
    /\ ~c.result[1].read
    /\ [c EXCEPT !.result[1].read = TRUE] \in pending'

\* the handler that awaited call c goes on in this step
Resumed(c) ==
    /\ c \in pending
    /\ c.result # <<>>
    /\ c.result[1].read
    /\ \A d \in pending' : d.n # c.n

SessionExpired ==
    /\ ui.localStorage = Null
    /\ ui.screen = "auth"
    /\ ui.loginErrorMessage = "Your session has expired. Please log in again."

\* C21: a response of status 401 or 403 raises auth-error as it arrives, so
\* that at once nothing is stored, the authentication screen is the active
\* one and it shows the session-expired message; the caller sees the
\* failure only after that (a call is resumed only once its response has
\* been through handleResponse).
C21_SessionExpiry ==
    [][ /\ \A c \in pending :
              Delivered(c) /\ c.result[1].status \in {401, 403} => SessionExpired'
        /\ \A c \in pending :
              (\A d \in pending' : d.n # c.n) => Resumed(c) ]_vars

\* a protected call was answered 403 and its caller has not yet gone on
C21_Witness ==
    /\ SessionExpired
    /\ \E c \in pending : /\ c.api = "loadMapData"
                           /\ c.result # <<>>
                           /\ c.result[1].status = 403
                           /\ c.result[1].read

\* the token in memory and the stored one are both absent, or present and
\* equal
TokensAgree == state.token = ui.localStorage

\* every protected call in flight was sent with the token that was stored
\* as it left
SentWithStoredToken == \A c \in pending : c.api # "loginUser" => c.token = c.stored

\* C22: after auth-error has logged the user out no request leaves with the
\* old token, and the token in memory always agrees with the stored one.
\* The auth-error listener only empties localStorage (auth.logout):
\* state.token keeps the old token, and loadMapData sends it.
C22_NoTokenAfterLogout == TokensAgree /\ SentWithStoredToken

\* C23: when handleLoginSubmit goes on after a successful login the token
\* of the response is stored and onLoginSuccess runs with it (token in
\* memory, setup screen, varieties requested); after a failed login the
\* stored token and the token in memory are as before, no request leaves
\* and the error message is shown; either way the button is enabled again.
C23_LoginStoresTokenOnSuccess ==
    [][ \A c \in pending :
          Resumed(c) /\ c.api = "loginUser" =>
            /\ ~ui'.loginButtonDisabled
            /\ IF c.result[1].status = 200
               THEN /\ ui'.localStorage = c.result[1].data
                    /\ state'.token = c.result[1].data
                    /\ ui'.screen = "setup"
                    /\ \E d \in pending' : /\ d \notin pending
                                            /\ d.api = "fetchVarieties"
                                            /\ d.token = c.result[1].data
               ELSE /\ ui'.localStorage = ui.localStorage
                    /\ state'.token = state.token
                    /\ pending' = pending \ {c}
                    /\ ui'.screen = ui.screen
                    /\ ui'.loginErrorMessage = "Invalid email or password." ]_vars

\* a login has succeeded (the token in memory is one only /api/login hands
\* out) and a later one has failed
C23_Witness ==
    /\ state.token = <<"jwt2">>
    /\ ui.localStorage = Null
    /\ ui.screen = "auth"
    /\ ui.loginErrorMessage = "Invalid email or password."
    /\ ~ui.loginButtonDisabled
    /\ pending = {}

(***************************************************************************)
(* The map: clicks, creation modes, saving a field                         *)
(***************************************************************************)
\* C24: a click on the map appends its place to the drawn points in
\* create-field mode and leaves the plant location and its marker alone;
\* in create-plant mode it makes its place the pending plant location and
\* leaves the drawn points and the area alone; in view mode it changes
\* nothing.  No step of any handler adds a point outside create-field mode
\* or sets a plant location outside create-plant mode.
C24_MapClicksActByMode ==
    [][ /\ \A latlng \in LatLngs :
              LET after == handleMapClick(Page, latlng)
              IN  CASE state.currentMapMode = "create-field" ->
                       /\ after.ui.polygonPoints = Append(ui.polygonPoints, latlng)
                       /\ after.state.currentPlantLocation = state.currentPlantLocation
                       /\ after.ui.tempPlantMarker = ui.tempPlantMarker
                    [] state.currentMapMode = "create-plant" ->
                       /\ after.state.currentPlantLocation = <<latlng>>
                       /\ after.ui.polygonPoints = ui.polygonPoints
                       /\ after.state.currentMapArea = state.currentMapArea
                    [] OTHER -> after = Page
        /\ Len(ui'.polygonPoints) > Len(ui.polygonPoints)
               => state.currentMapMode = "create-field"
        /\ (state'.currentPlantLocation # state.currentPlantLocation
               /\ state'.currentPlantLocation # Null)
               => state.currentMapMode = "create-plant" ]_vars

\* a click has placed the plant, and no point is drawn
C24_Witness ==
    /\ state.currentMapMode = "create-plant"
    /\ state.currentPlantLocation = << [lat |-> 0, lng |-> 2] >>
    /\ ui.tempPlantMarker = << [lat |-> 0, lng |-> 2] >>
    /\ ui.polygonPoints = <<>>

\* what exitCreationMode leaves behind
CreationReset(pg) ==
    /\ pg.state.currentMapMode = "view"
    /\ pg.ui.polygonPoints = <<>>
    /\ pg.state.currentMapArea = NoArea
    /\ pg.state.currentPlantLocation = Null
    /\ pg.ui.tempPlantMarker = Null
    /\ pg.ui.plantFormDisabled

ClosedRingOf(ring, points) ==
    /\ Len(ring) = Len(points) + 1
    /\ \A i \in DOMAIN points : ring[i] = <<points[i].lng, points[i].lat>>
    /\ ring[Len(ring)] = ring[1]

\* C26: a step sends a field save request only when the trimmed name is not
\* empty and at least three points are drawn as it is sent; the request
\* carries that name, the closed ring of exactly the points drawn now, and
\* the area of that ring (not that of an earlier or of a cleared drawing).
C26_SaveDrawnField ==
    [][ \A d \in pending' :
          d.api = "saveField" /\ (\A c \in pending : c.n # d.n) =>
            /\ trim(ui.fieldNameInput) # ""
            /\ Len(ui.polygonPoints) >= 3
            /\ d.arg[1].name = trim(ui.fieldNameInput)
            /\ d.arg[1].geometry.type = "Polygon"
            /\ ClosedRingOf(d.arg[1].geometry.coordinates, ui.polygonPoints)
            /\ d.arg[1].area_hectares = turfArea(d.arg[1].geometry).hectares ]_vars

\* a triangle was saved from the docs page, whose map module reports the
\* area from the third point on only; the drawing has been cleared since
C26_Witness ==
    /\ app = "docs"
    /\ ui.polygonPoints = <<>>
    /\ \E c \in pending : /\ c.api = "saveField"
                           /\ c.arg[1].name = "North"
                           /\ Len(c.arg[1].geometry.coordinates) = 4
                           /\ c.arg[1].area_hectares = 4

(***************************************************************************)
(* The map: selections and panels                                          *)
(***************************************************************************)
\* the loaded plants inside bounds
PlantsInside(bounds) ==
    { i \in DOMAIN state.plants : contains(bounds, state.plants[i].location) }

\* three of the plants do not lie on one line
SpansAnArea(plants) ==
    \E i, j, k \in DOMAIN plants :
        LET p == plants[i].location
            q == plants[j].location
            r == plants[k].location
        IN  (q.lng - p.lng) * (r.lat - p.lat) # (r.lng - p.lng) * (q.lat - p.lat)

\* C27: handleSelectionDrawn selects exactly the loaded plants inside the
\* bounds and leaves the create-field-from-selection button enabled iff
\* they are at least three; a step sends the save request of
\* handleCreateFieldFromSelection only when at least three plants are
\* selected, the name is not blank and the plants span an area;
\* clearSelectionState leaves no plant selected.
C27_FieldFromSelection ==
    [][ /\ \A bounds \in SelectionBounds :
              LET after == handleSelectionDrawn(Page, bounds)
              IN  /\ Len(after.ui.currentSelectedPlants) = Cardinality(PlantsInside(bounds))
                  /\ \A i \in DOMAIN after.ui.currentSelectedPlants :
                         contains(bounds, after.ui.currentSelectedPlants[i].location)
                  /\ ~after.ui.createFieldFromSelectionBtnDisabled
                         <=> Cardinality(PlantsInside(bounds)) >= 3
        /\ \A d \in pending' :
              d.api = "saveFieldFromSelection" /\ (\A c \in pending : c.n # d.n) =>
                /\ Len(ui.currentSelectedPlants) >= 3
                /\ d.arg[1].name \notin {"", " "}
                /\ SpansAnArea(ui.currentSelectedPlants)
        /\ clearSelectionState(Page).ui.currentSelectedPlants = <<>> ]_vars

\* the field of a selection of four plants is being saved
C27_Witness ==
    /\ Len(ui.currentSelectedPlants) = 4
    /\ ~ui.selectionControlsHidden
    /\ \E c \in pending : c.api = "saveFieldFromSelection" /\ c.arg[1].name = "North"

\* the control panels of the map that are visible
VisiblePanels ==
    { panel \in {"view", "field", "plant", "selection"} :
        \/ panel = "view" /\ ~ui.viewControlsHidden
        \/ panel = "field" /\ ~ui.fieldCreationControlsHidden
        \/ panel = "plant" /\ ~ui.plantCreationControlsHidden
        \/ panel = "selection" /\ ~ui.selectionControlsHidden }

\* C30: exactly one of the four control panels is visible, and it is the
\* one of the map mode: the field panel in create-field mode, the plant
\* panel in create-plant mode, the view or the selection panel in view
\* mode.  The handlers of the selection and those of the creation modes
\* each hide and show their own panels only.
C30_OnePanelAtATime ==
    /\ Cardinality(VisiblePanels) = 1
    /\ state.currentMapMode = "create-field" => VisiblePanels = {"field"}
    /\ state.currentMapMode = "create-plant" => VisiblePanels = {"plant"}
    /\ state.currentMapMode = "view" => VisiblePanels \subseteq {"view", "selection"}

(***************************************************************************)
(* Navigation                                                              *)
(***************************************************************************)
\* C28: whatever view of the main screen is active, and whatever state the
\* map was left in, a user who keeps pressing Back reaches the setup
\* screen: no run of Back presses stays on the main screen forever.
\* Each press goes from field details to the map, from the dashboard to the
\* setup screen and from any other view to the dashboard.
C28_BackLeadsOut ==
    /\ [][ ui.screen = "main" =>
             IF ui.view = "field-details-view"
             THEN ui'.screen = "main" /\ ui'.view = "map-view"
             ELSE IF ui.view = "dashboard-view"
             THEN ui'.screen = "setup"
             ELSE ui'.screen = "main" /\ ui'.view = "dashboard-view" ]_vars
    /\ <>(ui.screen = "setup")

\* the setup screen, reached by Back from a map left in create-field mode
\* with a triangle drawn
C28_Witness ==
    /\ ui.screen = "setup"
    /\ ui.view = "dashboard-view"
    /\ state.currentMapMode = "create-field"
    /\ Len(ui.polygonPoints) = 3

(***************************************************************************)
(* Reloading the map                                                       *)
(***************************************************************************)
\* no id twice in a layer
DrawnOnce(layer) == \A i, j \in DOMAIN layer : layer[i] = layer[j] => i = j

\* the layers show the stored rows, each once
LayersShowState ==
    /\ ui.fieldsLayer = Ids(state.fields) /\ DrawnOnce(ui.fieldsLayer)
    /\ ui.plantsLayer = Ids(state.plants) /\ DrawnOnce(ui.plantsLayer)

\* the rows of a reload are not replaced by those of a reload started
\* before it: a response that arrives after a later reload has been drawn
\* leaves the stored rows and the layers as they are
NewerReloadWins ==
    [][ \A c \in pending :
          Resumed(c) /\ c.api = "loadMapData" /\ c.result[1].status = 200
                     /\ c.n < ui.reloadDrawn
            => /\ state'.fields = state.fields
               /\ state'.plants = state.plants
               /\ ui'.fieldsLayer = ui.fieldsLayer
               /\ ui'.plantsLayer = ui.plantsLayer ]_vars

\* C29: with several reloads in flight and their responses in any order,
\* the stored fields and plants and the drawn layers end as those of the
\* reload started last; fields and plants are always of one reload and
\* nothing is drawn twice.  loadMapData applies whatever response arrives,
\* with no check that a later reload has been applied meanwhile.
C29_LatestReloadWins == []LayersShowState /\ NewerReloadWins
====
